---- MODULE Spec2Model ----
(***************************************************************************)
(* TACO tool orchestration: the ToolStack state machine                    *)
(* (taco/core/tool_stack.py), the Tool wrapper (taco/tools/registry.py)    *)
(* and the per-turn loop of ChatSession (taco/core/chat.py).               *)
(*                                                                         *)
(* Timestamps of stack frames (datetime.now()) are not modelled: no code   *)
(* reads them.  Strings that the code only passes along (prompts, error    *)
(* messages) are atoms.                                                    *)
(***************************************************************************)
EXTENDS Integers, Sequences, FiniteSets, TLC

VARIABLES
    stack,            \* ToolStack.stack: sequence of frames, top is the last
    original_prompt,  \* ToolStack.original_prompt: a prompt or None
    max_stack_depth,  \* ToolStack.max_stack_depth
    pc,               \* where ChatSession.ask is: "idle" between turns, "exec" in the
                      \* loop of _execute_tool_calls, "process" in the loop over tool_results
    tool_calls,       \* the parsed tool calls _execute_tool_calls has still to handle
    results,          \* tool_results of the turn
    processed,        \* how many of results ask has passed to process_tool_result
    last,             \* observation: the last ToolStack method call and the state before it
    handled,          \* observation: how _execute_tool_calls handled the last call
    executed,         \* observation: the last Tool.execute call and its outcome
    turn,             \* observation: what has happened in the turn so far
    history,          \* ChatSession.history; the entries of earlier turns are folded
                      \* into one leading PriorHistory entry
    sent,             \* observation: the message lists given to the model by the
                      \* current (or last) call of ask, in order
    reply,            \* observation: how the last call of ask ended
    given,            \* the arguments of the last call of a function of the
                      \* message handler, of Tool.convert_argument or of the
                      \* history persistence
    returned,         \* observation: what that call returned, or that it raised
    file              \* the content of the history file

tsvars == <<stack, original_prompt, max_stack_depth>>
libvars == <<given, returned, file>>
askvars == <<pc, tool_calls, results, processed, handled, executed, turn,
             history, sent, reply, given, returned, file>>
vars == <<stack, original_prompt, max_stack_depth, pc, tool_calls, results, processed,
          last, handled, executed, turn, history, sent, reply, given, returned, file>>

(***************************************************************************)
(* Values                                                                  *)
(***************************************************************************)
None == "None"
\* A key that a mapping does not have.
Absent == "<absent>"

\* ToolStack.__init__: self.max_stack_depth = 20
DEFAULT_MAX_STACK_DEPTH == 20
\* check_depth_limit: self.max_stack_depth += 20
DEPTH_EXTENSION == 20

\* Frame contexts.  A context is a mapping; the model keeps what the code
\* puts in it.
EmptyContext == [kind |-> "empty", for |-> "-"]                \* {}
NoneContext == [kind |-> "None", for |-> "-"]                  \* None
InitializingContext == [kind |-> "initializing", for |-> "-"]  \* {'status': 'initializing'}
SuppliedContext == [kind |-> "supplied", for |-> "-"]          \* a non-empty mapping of a result
AbsentContext == [kind |-> "absent", for |-> "-"]              \* key 'context' not in the result
CollectingContext(tool) == [kind |-> "collecting", for |-> tool]

Frame(tool, context) == [tool |-> tool, context |-> context]

\* A tool's return value, up to the keys the orchestration reads.  isdict:
\* isinstance(result, dict); status, instructions, message: the values of
\* these keys (Absent when the key is missing); next_tool: the value of key
\* 'next_tool' (Absent when missing or falsy); context: the value of key
\* 'context'.
Value(isdict, status, instructions, next_tool, context) ==
    [isdict |-> isdict, status |-> status, instructions |-> instructions,
     next_tool |-> next_tool, context |-> context, message |-> Absent]

NonDictValue == Value(FALSE, Absent, Absent, Absent, AbsentContext)
EmptyDict == Value(TRUE, Absent, Absent, Absent, AbsentContext)

(***************************************************************************)
(* ToolStack                                                               *)
(***************************************************************************)
ToolStackState(s, p, m) == [stack |-> s, original_prompt |-> p, max_stack_depth |-> m]

\* push: context or {}
push(ts, tool_name, context) ==
    [ts EXCEPT !.stack = Append(@, Frame(tool_name,
        IF context \in {NoneContext, EmptyContext} THEN EmptyContext ELSE context))]

\* A pop that drops the frame beneath the top one as well.
pop_two(ts) ==
    IF ts.stack # <<>>
    THEN [ts EXCEPT !.stack = SubSeq(@, 1, Len(@) - 2)]
    ELSE ts

pop(ts) ==
    IF ts.stack # <<>>
    THEN [ts EXCEPT !.stack = SubSeq(@, 1, Len(@) - 1)]
    ELSE ts

\* A clear that forgets to reset original_prompt.
clear_stack_only(ts) == [ts EXCEPT !.stack = <<>>]

clear(ts) == [ts EXCEPT !.stack = <<>>, !.original_prompt = None]

get_depth(ts) == Len(ts.stack)

get_current_tool(ts) ==
    IF ts.stack # <<>> THEN ts.stack[Len(ts.stack)].tool ELSE None

set_original_prompt(ts, prompt) == [ts EXCEPT !.original_prompt = prompt]

\* check_depth_limit with the user's answer to "Continue for another 20
\* levels?": the stack state after it and the value returned.
check_depth_limit(ts, response) ==
    IF get_depth(ts) >= ts.max_stack_depth
    THEN IF response = "y"
         THEN [ts |-> [ts EXCEPT !.max_stack_depth = @ + DEPTH_EXTENSION], ok |-> TRUE]
         ELSE [ts |-> clear(ts), ok |-> FALSE]
    ELSE [ts |-> ts, ok |-> TRUE]

\* An empty-input confirmation that returns the cancellation message and
\* keeps the workflow.
handle_empty_response_keeps(ts, response) ==
    IF ts.stack = <<>> \/ response = "y"
    THEN [ts |-> ts, message |-> None]
    ELSE [ts |-> ts, message |-> "Tool workflow cancelled."]

\* handle_empty_response with the user's answer to "Continue with current
\* task?": the stack state after it and the message returned (None: go on).
handle_empty_response(ts, response) ==
    IF ts.stack = <<>>
    THEN [ts |-> ts, message |-> None]
    ELSE IF response # "y"
         THEN [ts |-> clear(ts), message |-> "Tool workflow cancelled."]
         ELSE [ts |-> ts, message |-> None]

\* The three rules of process_tool_result for a successful mapping result,
\* applied in the order of the code.
InstructionsRule(ts, tool_name, result) ==
    IF result.status = "success" /\ result.instructions # Absent
    THEN push(ts, tool_name, InitializingContext)
    ELSE ts

\* A next_tool rule that replaces the top frame by the successor.
NextToolRule_replaces(ts, result) ==
    IF result.next_tool # Absent
    THEN push(pop(ts), result.next_tool,
              IF result.context = AbsentContext THEN EmptyContext ELSE result.context)
    ELSE ts

NextToolRule(ts, result) ==
    IF result.next_tool # Absent
    THEN push(ts, result.next_tool,
              IF result.context = AbsentContext THEN EmptyContext ELSE result.context)
    ELSE ts

\* A complete rule that also retires the frame on status 'success'.
CompleteRule_on_success(ts, result) ==
    IF result.status \in {"complete", "success"} THEN pop(ts) ELSE ts

CompleteRule(ts, result) ==
    IF result.status = "complete" THEN pop(ts) ELSE ts

\* A process_tool_result whose failure branch does not return: the rules
\* go on to run on the cleared stack.
process_tool_result_no_return(ts, tool_name, result, success) ==
    LET t == IF ~success THEN clear(ts) ELSE ts
    IN  IF result.isdict
        THEN CompleteRule(NextToolRule(InstructionsRule(t, tool_name, result), result), result)
        ELSE t

process_tool_result(ts, tool_name, result, success) ==
    IF ~success
    THEN clear(ts)
    ELSE IF result.isdict
         THEN CompleteRule(NextToolRule(InstructionsRule(ts, tool_name, result), result), result)
         ELSE ts

(***************************************************************************)
(* Tool (taco/tools/registry.py)                                           *)
(***************************************************************************)
\* A Tool wraps a callable.  usage: what the callable's _get_usage_instructions
\* hook does (NoHook: the callable has no such attribute; HookRaises: the
\* hook raises; else the text it returns).  mode_param: the callable's
\* signature has a parameter named 'mode'.
NoHook == "<no hook>"
HookRaises == "<hook raises>"
Tool(name, usage, mode_param) == [name |-> name, usage |-> usage, mode_param |-> mode_param]

\* What a call of the wrapped callable does: return a value or raise.
\* class "Exception" stands for every class derived from Exception,
\* "BaseException" for the others (KeyboardInterrupt, SystemExit).
NoException == [class |-> "-", message |-> "-"]
Returns(value) == [kind |-> "return", value |-> value, exc |-> NoException]
Raises(class, message) ==
    [kind |-> "raise", value |-> NonDictValue, exc |-> [class |-> class, message |-> message]]

ErrorValue(message) ==
    [Value(TRUE, "error", Absent, Absent, AbsentContext) EXCEPT !.message = message]
InstructionsValue(instructions) ==
    Value(TRUE, "success", instructions, Absent, AbsentContext)
NoUsageMessage(name) == "Tool " \o name \o " does not provide usage instructions"

\* get_usage_instructions: what it returns (text) or raises, and whether it
\* called the wrapped callable.  behaviour is what the callable does when
\* called with mode="get_usage_instructions".
get_usage_instructions(tool, behaviour) ==
    IF tool.usage = HookRaises
    THEN [kind |-> "raise", text |-> "", exc |-> [class |-> "Exception", message |-> "hook failed"],
          invoked |-> FALSE]
    ELSE IF tool.usage # NoHook
    THEN [kind |-> "return", text |-> tool.usage, exc |-> NoException, invoked |-> FALSE]
    ELSE IF tool.mode_param
    THEN [kind |-> "return",
          text |-> IF /\ behaviour.kind = "return"
                      /\ behaviour.value.isdict
                      /\ behaviour.value.instructions # Absent
                   THEN behaviour.value.instructions
                   ELSE "",
          exc |-> NoException, invoked |-> TRUE]
    ELSE [kind |-> "return", text |-> "", exc |-> NoException, invoked |-> FALSE]

\* Tool.execute(**kwargs): mode is kwargs.get('mode'), behaviour what the
\* wrapped callable does with the call that execute makes.  The outcome is
\* the value returned or the exception that leaves execute.
execute(tool, mode, behaviour) ==
    IF mode = "get_usage_instructions"
    THEN LET u == get_usage_instructions(tool, behaviour)
         IN  IF u.kind = "raise"
             THEN [kind |-> "raise", value |-> NonDictValue, exc |-> u.exc,
                   invoked |-> u.invoked]
             ELSE [kind |-> "return",
                   value |-> IF u.text # ""
                             THEN InstructionsValue(u.text)
                             ELSE ErrorValue(NoUsageMessage(tool.name)),
                   exc |-> NoException, invoked |-> u.invoked]
    ELSE IF behaviour.kind = "raise"
    THEN IF behaviour.exc.class = "Exception"
         THEN [kind |-> "return", value |-> ErrorValue(behaviour.exc.message),
               exc |-> NoException, invoked |-> TRUE]
         ELSE [kind |-> "raise", value |-> NonDictValue, exc |-> behaviour.exc,
               invoked |-> TRUE]
    ELSE [kind |-> "return", value |-> behaviour.value, exc |-> NoException,
          invoked |-> TRUE]

\* The record of a Tool.execute call.
Executed(tool, mode, behaviour) ==
    [tool |-> tool, mode |-> mode, behaviour |-> behaviour,
     outcome |-> execute(tool, mode, behaviour)]

NoExecute ==
    [tool |-> Tool("-", NoHook, FALSE), mode |-> Absent, behaviour |-> Returns(NonDictValue),
     outcome |-> [kind |-> "none", value |-> NonDictValue, exc |-> NoException,
                  invoked |-> FALSE]]

(***************************************************************************)
(* The ToolStack object                                                    *)
(***************************************************************************)
ThisStack == ToolStackState(stack, original_prompt, max_stack_depth)

\* The object's fields become those of ts.
Becomes(ts) ==
    /\ stack' = ts.stack
    /\ original_prompt' = ts.original_prompt
    /\ max_stack_depth' = ts.max_stack_depth

\* The record of a ToolStack method call.
Called(op, tool_name, result, success) ==
    [op |-> op, tool |-> tool_name, result |-> result, success |-> success,
     pre |-> ThisStack]

NoCall == [op |-> "none", tool |-> "-", result |-> NonDictValue, success |-> TRUE,
           pre |-> ToolStackState(<<>>, None, DEFAULT_MAX_STACK_DEPTH)]

\* How _execute_tool_calls handled a call.  branch: the path taken; asked:
\* the depth guard prompted the user; looked_up: the registry was consulted;
\* invoked: the tool's callable was called; before: the ToolStack when the
\* iteration began; at: the ToolStack after the depth guard, which is the
\* one the lookup and the callable run with.
Handled(tool_name, branch, asked, looked_up, invoked, before, at) ==
    [tool |-> tool_name, branch |-> branch, asked |-> asked, looked_up |-> looked_up,
     invoked |-> invoked, before |-> before, at |-> at]

NoHandled == [tool |-> "-", branch |-> "none", asked |-> FALSE, looked_up |-> FALSE,
              invoked |-> FALSE,
              before |-> ToolStackState(<<>>, None, DEFAULT_MAX_STACK_DEPTH),
              at |-> ToolStackState(<<>>, None, DEFAULT_MAX_STACK_DEPTH)]

\* declined: the user refused a depth extension in this turn, at stack
\* depth declined_at; escaped: an exception left ask in this turn;
\* approved: the extensions the user has approved in the session;
\* question: the input of the turn; switched: it was taken as a context
\* switch; cancelled: the user cancelled the workflow on an empty input;
\* called: the first output of the model in this turn held a tool call;
\* had_history: the history was not empty when ask was called; failed: the
\* backend raised during a model call of the turn; second_called: the second
\* output of the model in this turn held a tool call.
NoTurn == [declined |-> FALSE, declined_at |-> 0, escaped |-> FALSE, approved |-> 0,
           question |-> [text |-> "-", phrase |-> FALSE, long |-> FALSE,
                         question_mark |-> FALSE],
           switched |-> FALSE, cancelled |-> FALSE, called |-> FALSE,
           had_history |-> FALSE, failed |-> FALSE, second_called |-> FALSE]

\* How a call of ask ended: it returned a text or an exception left it.
NoReply == [kind |-> "none", text |-> ""]
Text(text) == [kind |-> "text", text |-> text]
RaisedReply == [kind |-> "raise", text |-> ""]

\* ToolStack.__init__
ToolStackInit ==
    /\ stack = <<>>
    /\ original_prompt = None
    /\ max_stack_depth = DEFAULT_MAX_STACK_DEPTH
    /\ last = NoCall

(***************************************************************************)
(* ChatSession (taco/core/chat.py)                                         *)
(***************************************************************************)
\* A parsed tool call: its tool_name and the value of key 'mode' of its
\* parameters (the one parameter Tool.execute itself reads).
Call(tool_name, mode) == [tool_name |-> tool_name, mode |-> mode]

\* An entry of tool_results.  result is the value of key 'result' when
\* has_result, error the value of key 'error' (Absent: no such key).  how is
\* an observation, not a field of the code: the path that made the entry.
ToolResult(tool_name, mode, has_result, result, error, success, how) ==
    [tool |-> tool_name, mode |-> mode, has_result |-> has_result, result |-> result,
     error |-> error, success |-> success, how |-> how]

DepthLimitMessage == "Tool stack depth limit reached"
NotFoundMessage(tool_name) == "Tool '" \o tool_name \o "' not found"

\* The entries the loop appends without running the tool.
depth_limit_result(call) ==
    ToolResult(call.tool_name, call.mode, FALSE, EmptyDict, DepthLimitMessage, FALSE,
               "depth_limit")

not_found_result_success(call) ==
    ToolResult(call.tool_name, call.mode, FALSE, EmptyDict,
               NotFoundMessage(call.tool_name), TRUE, "not_found")

not_found_result(call) ==
    ToolResult(call.tool_name, call.mode, FALSE, EmptyDict,
               NotFoundMessage(call.tool_name), FALSE, "not_found")

Registered(tools, tool_name) == \E t \in tools : t.name = tool_name
Lookup(tools, tool_name) == CHOOSE t \in tools : t.name = tool_name

\* An is_context_switch whose length and question-mark heuristic does not
\* look at the top frame.
is_context_switch_any_tool(ts, question) ==
    IF ts.stack = <<>> \/ question.text = ""
    THEN FALSE
    ELSE question.phrase \/ question.long \/ question.question_mark

\* is_context_switch.  A question is its text and what the code tests of it:
\* phrase (it contains one of the topic-change phrases), long (more than 5
\* words) and question_mark (it ends with '?').
is_context_switch(ts, question) ==
    IF ts.stack = <<>> \/ question.text = ""
    THEN FALSE
    ELSE IF question.phrase
    THEN TRUE
    ELSE IF get_current_tool(ts) = "collect_tool_parameters"
    THEN question.long \/ question.question_mark
    ELSE FALSE

\* The outcome of one iteration of the loop of _execute_tool_calls.
Iteration(ts, result, escaped, handled_as, executed_as) ==
    [ts |-> ts, result |-> result, escaped |-> escaped, handled |-> handled_as,
     executed |-> executed_as]

\* The normal execution of a call (the try block): prepare is what
\* check_missing_parameters and convert_argument do with the parameters
\* (return or raise), behaviour what the callable does.
execute_in_try(before, ts, tool, call, asked, prepare, behaviour) ==
    IF prepare.kind = "raise"
    THEN Iteration(ts,
            ToolResult(call.tool_name, call.mode, FALSE, EmptyDict,
                       prepare.exc.message, FALSE, "prepare_raised"),
            FALSE,
            Handled(call.tool_name, "prepare_raised", asked, TRUE, FALSE, before, ts),
            NoExecute)
    ELSE LET o == execute(tool, call.mode, behaviour)
         IN  IF o.kind = "raise"
             THEN IF o.exc.class = "Exception"
                  THEN Iteration(ts,
                          ToolResult(call.tool_name, call.mode, FALSE, EmptyDict,
                                     o.exc.message, FALSE, "execute_raised"),
                          FALSE,
                          Handled(call.tool_name, "execute_raised", asked, TRUE, o.invoked, before, ts),
                          Executed(tool, call.mode, behaviour))
                  ELSE Iteration(ts,
                          ToolResult(call.tool_name, call.mode, FALSE, EmptyDict,
                                     Absent, FALSE, "escaped"),
                          TRUE,
                          Handled(call.tool_name, "escaped", asked, TRUE, o.invoked, before, ts),
                          Executed(tool, call.mode, behaviour))
             ELSE Iteration(
                     IF o.value.isdict /\ o.value.status = "needs_parameters"
                     THEN push(ts, "collect_tool_parameters",
                               CollectingContext(call.tool_name))
                     ELSE ts,
                     ToolResult(call.tool_name, call.mode, TRUE, o.value, Absent, TRUE,
                                IF o.invoked /\ behaviour.kind = "raise"
                                THEN "callable_raised" ELSE "executed"),
                     FALSE,
                     Handled(call.tool_name, "executed", asked, TRUE, o.invoked, before, ts),
                     Executed(tool, call.mode, behaviour))

\* One iteration of the loop of _execute_tool_calls on `call`: response is
\* the user's answer if the depth guard asks, tools the registry.
execute_tool_call(ts, tools, call, response, prepare, behaviour) ==
    LET asked == get_depth(ts) >= ts.max_stack_depth
        guard == check_depth_limit(ts, response)
    IN  IF ~guard.ok
        THEN Iteration(guard.ts,
                depth_limit_result(call),
                FALSE,
                Handled(call.tool_name, "depth_limit", asked, FALSE, FALSE, ts, guard.ts),
                NoExecute)
        ELSE IF ~Registered(tools, call.tool_name)
        THEN Iteration(guard.ts,
                not_found_result(call),
                FALSE,
                Handled(call.tool_name, "not_found", asked, TRUE, FALSE, ts, guard.ts),
                NoExecute)
        ELSE IF guard.ts.stack = <<>>
        THEN LET u == get_usage_instructions(Lookup(tools, call.tool_name), behaviour)
             IN  IF u.kind = "raise"
                 THEN Iteration(guard.ts,
                         ToolResult(call.tool_name, call.mode, FALSE, EmptyDict,
                                    Absent, FALSE, "escaped"),
                         TRUE,
                         Handled(call.tool_name, "escaped", asked, TRUE, u.invoked, ts, guard.ts),
                         NoExecute)
                 ELSE Iteration(guard.ts,
                         ToolResult(call.tool_name, "get_usage_instructions", TRUE,
                                    InstructionsValue(u.text), Absent, TRUE,
                                    "usage_instructions"),
                         FALSE,
                         Handled(call.tool_name, "usage_instructions", asked, TRUE,
                                 u.invoked, ts, guard.ts),
                         NoExecute)
        ELSE execute_in_try(ts, guard.ts, Lookup(tools, call.tool_name), call, asked,
                            prepare, behaviour)

\* get_system_context: the workflow narration of the system prompt, as the
\* values it is built from (None: the line is not written).
NoNarration == [active_tool |-> None, original_request |-> None, depth |-> 0]
get_system_context(ts) ==
    IF ts.stack = <<>>
    THEN NoNarration
    ELSE [active_tool |-> get_current_tool(ts), original_request |-> ts.original_prompt,
          depth |-> get_depth(ts)]

\* A message of the history or of a request: role, content and, for the
\* system prompt, the workflow narration appended to it.
Message(role, content, narration) ==
    [role |-> role, content |-> content, narration |-> narration]

\* The entries that earlier turns left in the history.  ask only appends to
\* the history and copies it as a whole, so they are kept as one entry.
PriorHistory == Message("history", "<entries of earlier turns>", NoNarration)
Fold(h) == IF h = <<>> THEN <<>> ELSE <<PriorHistory>>

CancelledMessage == "Tool workflow cancelled."
FirstOutput == Message("assistant", "<first model output>", NoNarration)
SecondOutput == Message("assistant", "<second model output>", NoNarration)
SelectPrefix == "Select the best tool to handle this request: "

\* The message list of the first model call: the system prompt (tools
\* description and workflow narration), then a copy of the history whose
\* last entry, the user's input, is reworded when the stack is empty.
first_messages(ts, h) ==
    LET modified_history ==
            IF ts.stack = <<>> /\ h # <<>> /\ h[Len(h)].role = "user"
            THEN [h EXCEPT ![Len(h)] =
                     Message("user", SelectPrefix \o h[Len(h)].content, NoNarration)]
            ELSE h
    IN  <<Message("system", "<tools prompt>", get_system_context(ts))>> \o modified_history

\* The tool context message built from the tool results of the turn.
got_usage_instructions(tool_results) ==
    \E i \in 1..Len(tool_results) :
        /\ tool_results[i].success
        /\ tool_results[i].has_result
        /\ tool_results[i].result.isdict
        /\ tool_results[i].result.status = "success"
        /\ tool_results[i].result.instructions # Absent

tool_context(tool_results, ts) ==
    IF got_usage_instructions(tool_results) /\ ts.original_prompt \notin {None, ""}
    THEN Message("system",
                 "Now use the " \o tool_results[1].tool \o " tool for: "
                     \o ts.original_prompt,
                 NoNarration)
    ELSE Message("system", "The following tool was executed", NoNarration)

\* interpretation_messages, the list ask builds for the second model call.
interpretation_messages(tool_results, question, context_message) ==
    <<Message("system", "Use the " \o tool_results[1].tool \o " tool", NoNarration),
      Message("user", question.text, NoNarration),
      context_message>>

\* The list ask gives to the second model call.
second_request(messages, interpretation) == messages

\* A fenced JSON block of a model output.  tool_call: a mapping with key
\* tool_call holding name and parameters; skipped: invalid JSON, or a
\* mapping, list or string without these keys; scalar: valid JSON whose
\* value (or whose tool_call value) is a number, a boolean or null.
ToolCallBlock(call) == [kind |-> "tool_call", call |-> call]
SkippedBlock == [kind |-> "skipped", call |-> Call("-", Absent)]
ScalarBlock == [kind |-> "scalar", call |-> Call("-", Absent)]

IsToolCallBlock(block) == block.kind = "tool_call"

\* parse_tool_calls: the calls of the output in textual order, or the
\* TypeError of the membership test on a scalar.
parse_tool_calls(output) ==
    IF \E i \in 1..Len(output) : output[i].kind = "scalar"
    THEN [kind |-> "raise", calls |-> <<>>]
    ELSE LET blocks == SelectSeq(output, IsToolCallBlock)
         IN  [kind |-> "return", calls |-> [i \in 1..Len(blocks) |-> blocks[i].call]]

\* The model output that holds exactly these calls.
AsOutput(calls) == [i \in 1..Len(calls) |-> ToolCallBlock(calls[i])]

\* A manual tool invocation, '/tools run <tool> <args>'.
ManualRun == "/tools run calc 1"

\* cmd_parts[0].lower(): the first word of the command line.
CommandWord(command) == IF command = ManualRun THEN "/tools" ELSE command

\* _check_for_tool_usage(question): the text of the tool run for an input
\* that starts with '/tools run ' and names a tool and arguments, else None.
check_for_tool_usage(question) ==
    IF question = ManualRun THEN "Tool calc result: <result of run_tool>" ELSE None

\* A handler that drops the history whatever the command.
handle_command_forgetful(ts, h, command) ==
    [ts |-> ts, history |-> <<>>, text |-> "Unknown command: " \o command]

\* A handler whose /cancel retires the top frame only.
handle_command_pops(ts, h, command) ==
    IF command = "/cancel" /\ ts.stack # <<>>
    THEN [ts |-> pop(ts), history |-> h, text |-> CancelledMessage]
    ELSE [ts |-> ts, history |-> h, text |-> "Unknown command: " \o command]

\* CommandHandler.handle_command, on the state ask owns: the ToolStack,
\* the history and the text returned.  /help stands for the commands that
\* only read the session (/status, /debug, /model, /tools, /context, /tool,
\* /list, /project).
handle_command(ts, h, command) ==
    IF command = "/cancel"
    THEN IF ts.stack # <<>>
         THEN [ts |-> clear(ts), history |-> h, text |-> CancelledMessage]
         ELSE [ts |-> ts, history |-> h, text |-> "No active tool workflow to cancel."]
    ELSE IF command = "/clear"
    THEN [ts |-> clear(ts), history |-> <<>>,
          text |-> "Chat history and tool stack cleared"]
    ELSE IF command = "/help"
    THEN [ts |-> ts, history |-> h, text |-> "Available commands"]
    ELSE IF CommandWord(command) = "/tools"
    THEN [ts |-> ts, history |-> h, text |-> "Available tools:"]
    ELSE [ts |-> ts, history |-> h, text |-> "Unknown command: " \o command]

\* A start of ask that records every non-empty question as original_prompt.
start_of_ask_always_records(ts, question, response) ==
    LET switched == IF is_context_switch(ts, question) THEN clear(ts) ELSE ts
        empty == IF question.text = "" /\ switched.stack # <<>>
                 THEN handle_empty_response(switched, response)
                 ELSE [ts |-> switched, message |-> None]
    IN  IF empty.message # None
        THEN [ts |-> empty.ts, returned |-> TRUE]
        ELSE [ts |-> IF question.text # ""
                     THEN set_original_prompt(empty.ts, question.text)
                     ELSE empty.ts,
              returned |-> FALSE]

\* A start of ask that records the prompt before it looks for a context
\* switch.
start_of_ask_late_clear(ts, question, response) ==
    LET recorded == IF ts.stack = <<>> /\ question.text # ""
                    THEN set_original_prompt(ts, question.text)
                    ELSE ts
    IN  [ts |-> IF is_context_switch(ts, question) THEN clear(recorded) ELSE recorded,
         returned |-> FALSE]

\* ask, from its first line to the parse of the first model response, for
\* a question that is no command: the ToolStack after it and whether ask
\* has returned (the cancellation message of an empty input).
start_of_ask(ts, question, response) ==
    LET switched == IF is_context_switch(ts, question) THEN clear(ts) ELSE ts
        empty == IF question.text = "" /\ switched.stack # <<>>
                 THEN handle_empty_response(switched, response)
                 ELSE [ts |-> switched, message |-> None]
    IN  IF empty.message # None
        THEN [ts |-> empty.ts, returned |-> TRUE]
        ELSE [ts |-> IF empty.ts.stack = <<>> /\ question.text # ""
                     THEN set_original_prompt(empty.ts, question.text)
                     ELSE empty.ts,
              returned |-> FALSE]

\* ChatSession.__init__
AskInit ==
    /\ ToolStackInit
    /\ pc = "idle" /\ tool_calls = <<>> /\ results = <<>> /\ processed = 0
    /\ handled = NoHandled /\ executed = NoExecute /\ turn = NoTurn
    /\ history = <<>> /\ sent = <<>> /\ reply = NoReply
    /\ given = None /\ returned = None /\ file = None

\* ask with a command: the handler's text is returned.
Command(commands) ==
    /\ pc = "idle"
    /\ \E command \in commands :
          LET done == handle_command(ThisStack, history, command)
          IN  /\ Becomes(done.ts)
              /\ history' = done.history
              /\ reply' = Text(done.text)
              /\ last' = Called("command", command, NonDictValue, TRUE)
    /\ sent' = <<>>
    /\ turn' = [NoTurn EXCEPT !.approved = turn.approved,
                               !.had_history = history # <<>>]
    /\ handled' = NoHandled
    /\ executed' = NoExecute
    /\ UNCHANGED <<pc, tool_calls, results, processed, libvars>>

\* What the backend (client.chat) does with a request: it answers with an
\* output or raises.
Responds(output) == [kind |-> "respond", output |-> output]
Fails == [kind |-> "raise", output |-> <<>>]

\* The text generate_response makes of an exception of the backend: prose
\* with no fenced block.
ErrorText == "Error: Could not generate response - <exception>"
ErrorSegment == [kind |-> "error_text", call |-> Call("-", Absent)]
ErrorOutput == <<ErrorSegment>>

Generated(output) == [kind |-> "return", output |-> output]

\* A generate_response that lets the exception of the backend through.
generate_response_raising(backend) ==
    IF backend.kind = "raise"
    THEN [kind |-> "raise", output |-> <<>>]
    ELSE Generated(backend.output)

\* ModelManager.generate_response: the content of the answer, or the error
\* text when the backend raises.
generate_response(backend) ==
    IF backend.kind = "raise"
    THEN Generated(ErrorOutput)
    ELSE Generated(backend.output)

\* The assistant message of an output: the error text, or the text of the
\* model.
FirstOutputOf(output) ==
    IF output = ErrorOutput THEN Message("assistant", ErrorText, NoNarration)
    ELSE FirstOutput
SecondOutputOf(output) ==
    IF output = ErrorOutput THEN Message("assistant", ErrorText, NoNarration)
    ELSE SecondOutput

\* The answers the user may give at the start of ask: the empty-input
\* confirmation is the only prompt there.
Answers(ts, question) ==
    IF question.text = "" /\ ts.stack # <<>> THEN {"y", "n"} ELSE {"-"}

\* ask up to the parse of the first response: input a question that is no
\* command (with the user's answer if the empty-input confirmation asks)
\* and the model's first output.  ask ends here when the user cancels,
\* when the parse raises and when the output holds no tool call.
BeginTurnWith(questions, backends) ==
    /\ pc = "idle"
    /\ \E question \in questions, backend \in backends :
        \E response \in Answers(ThisStack, question) :
          LET start == start_of_ask(ThisStack, question, response)
              appended == Append(Fold(history), Message("user", question.text, NoNarration))
              generated == generate_response(backend)
              output == generated.output
              parsed == IF generated.kind = "raise"
                        THEN [kind |-> "raise", calls |-> <<>>]
                        ELSE parse_tool_calls(output)
              goes_on == ~start.returned /\ parsed.kind = "return" /\ parsed.calls # <<>>
          IN  /\ Becomes(start.ts)
              /\ last' = Called("ask", "-", NonDictValue, TRUE)
              /\ tool_calls' = IF goes_on THEN parsed.calls ELSE <<>>
              /\ pc' = IF goes_on THEN "exec" ELSE "idle"
              /\ history' = IF start.returned THEN history
                            ELSE IF parsed.kind = "return" /\ parsed.calls = <<>>
                            THEN Append(appended, FirstOutputOf(output))
                            ELSE appended
              /\ sent' = IF start.returned THEN <<>>
                         ELSE <<first_messages(start.ts, appended)>>
              /\ reply' = IF start.returned THEN Text(CancelledMessage)
                          ELSE IF parsed.kind = "raise" THEN RaisedReply
                          ELSE IF parsed.calls = <<>> THEN Text(FirstOutputOf(output).content)
                          ELSE NoReply
              /\ turn' = [NoTurn EXCEPT
                             !.approved = turn.approved,
                             !.escaped = ~start.returned /\ parsed.kind = "raise",
                             !.question = question,
                             !.switched = is_context_switch(ThisStack, question),
                             !.cancelled = start.returned,
                             !.had_history = history # <<>>,
                             !.failed = ~start.returned /\ backend.kind = "raise",
                             !.called = ~start.returned
                                        /\ \E i \in 1..Len(output) :
                                               IsToolCallBlock(output[i])]
    /\ results' = <<>>
    /\ processed' = 0
    /\ handled' = NoHandled
    /\ executed' = NoExecute
    /\ UNCHANGED libvars

\* The start of ask with a backend that answers.
BeginTurn(questions, outputs) ==
    BeginTurnWith(questions, {Responds(output) : output \in outputs})

\* One iteration of the loop of _execute_tool_calls: prepares is what the
\* checks and conversions of the parameters may do, behaviours what the
\* callable may do, limit the largest max_stack_depth explored.  An
\* exception that the loop does not catch leaves ask: the turn is over.
HandleCall(tools, prepares, behaviours, limit) ==
    /\ pc = "exec"
    /\ \E response \in {"y", "n"}, prepare \in prepares, behaviour \in behaviours :
          LET it == execute_tool_call(ThisStack, tools, Head(tool_calls), response,
                                      prepare, behaviour)
          IN  /\ it.ts.max_stack_depth <= limit
              /\ Becomes(it.ts)
              /\ results' = IF it.escaped THEN <<>> ELSE Append(results, it.result)
              /\ tool_calls' = IF it.escaped THEN <<>> ELSE Tail(tool_calls)
              /\ pc' = IF it.escaped THEN "idle"
                       ELSE IF Tail(tool_calls) = <<>> THEN "process" ELSE "exec"
              /\ handled' = it.handled
              /\ executed' = it.executed
              /\ turn' = [turn EXCEPT
                             !.declined = turn.declined \/ it.handled.branch = "depth_limit",
                             !.declined_at = IF it.handled.branch = "depth_limit"
                                             THEN get_depth(it.handled.before)
                                             ELSE turn.declined_at,
                             !.escaped = it.escaped,
                             !.approved = IF it.handled.asked
                                             /\ it.handled.branch # "depth_limit"
                                          THEN turn.approved + 1 ELSE turn.approved]
              /\ reply' = IF it.escaped THEN RaisedReply ELSE reply
    /\ processed' = 0
    /\ last' = NoCall
    /\ UNCHANGED <<history, sent, libvars>>

\* One iteration of ask's loop over tool_results.
ProcessResult ==
    /\ pc = "process"
    /\ processed < Len(results)
    /\ LET r == results[processed + 1]
           result == IF r.has_result THEN r.result ELSE EmptyDict
       IN  /\ Becomes(process_tool_result(ThisStack, r.tool, result, r.success))
           /\ last' = Called("process_tool_result", r.tool, result, r.success)
    /\ processed' = processed + 1
    /\ UNCHANGED <<pc, tool_calls, results, handled, executed, turn, history, sent, reply,
                   libvars>>

\* A second response that is parsed like the first one.
second_response_calls_parsed(output) == parse_tool_calls(output).calls

\* The tool calls ask takes from the second response: it is cleaned,
\* stored and returned, and never parsed.
second_response_calls(output) == <<>>

\* The rest of ask after the loop over tool_results: the first output and
\* the tool context message are appended to the history, the second model
\* call is made, its output is appended and ask returns.
FinishTurnWith(backends) ==
    /\ pc = "process"
    /\ processed = Len(results)
    /\ \E backend \in backends :
         LET context_message == tool_context(results, ThisStack)
             generated == generate_response(backend)
             interpretation == SecondOutputOf(generated.output)
         IN  /\ history' = IF generated.kind = "raise"
                           THEN history \o <<FirstOutput, context_message>>
                           ELSE history \o <<FirstOutput, context_message, interpretation>>
             /\ sent' = Append(sent,
                               second_request(sent[1],
                                   interpretation_messages(results, turn.question,
                                                           context_message)))
             /\ reply' = IF generated.kind = "raise" THEN RaisedReply
                         ELSE Text(interpretation.content)
             /\ turn' = [turn EXCEPT !.escaped = generated.kind = "raise",
                                     !.failed = backend.kind = "raise",
                                     !.second_called =
                                         \E i \in 1..Len(generated.output) :
                                             IsToolCallBlock(generated.output[i])]
             /\ tool_calls' = second_response_calls(generated.output)
             /\ pc' = IF second_response_calls(generated.output) = <<>>
                      THEN "idle" ELSE "exec"
    /\ results' = <<>>
    /\ processed' = 0
    /\ last' = NoCall
    /\ handled' = NoHandled
    /\ executed' = NoExecute
    /\ UNCHANGED <<tsvars, libvars>>

\* The rest of ask with a backend that answers the second call.
FinishTurn == FinishTurnWith({Responds(<<>>)})

\* All sequences of at most n elements of S, the empty one included.
RECURSIVE SeqsUpTo(_, _)
SeqsUpTo(S, n) ==
    IF n = 0 THEN {<<>>}
    ELSE LET shorter == SeqsUpTo(S, n - 1)
         IN  shorter \cup {Append(q, x) : q \in {t \in shorter : Len(t) = n - 1}, x \in S}

(***************************************************************************)
(* SpecStack: a ToolStack driven through its methods by any caller.        *)
(***************************************************************************)
MaxDepth == 2

ToolNames == {"calc", "collect_tool_parameters"}
Prompts == {"mortgage for 300000"}
Statuses == {Absent, "success", "complete", "error"}
UsageText == "Call the tool with principal, annual_rate and years."

\* The values a tool may return, up to what process_tool_result reads.
ResultValues ==
    {NonDictValue}
    \cup {Value(TRUE, st, ins, Absent, AbsentContext) :
            st \in Statuses, ins \in {Absent, UsageText}}
    \cup {Value(TRUE, st[1], st[2], nt, cx) :
            st \in Statuses \X {Absent, UsageText}, nt \in {"calc"},
            cx \in {AbsentContext, SuppliedContext}}

StackInit ==
    /\ ToolStackInit
    /\ pc = "idle" /\ tool_calls = <<>> /\ results = <<>> /\ processed = 0
    /\ handled = NoHandled /\ executed = NoExecute /\ turn = NoTurn
    /\ history = <<>> /\ sent = <<>> /\ reply = NoReply
    /\ given = None /\ returned = None /\ file = None

StackPush ==
    /\ Len(stack) < MaxDepth
    /\ \E tool_name \in ToolNames, context \in {NoneContext, SuppliedContext} :
          /\ Becomes(push(ThisStack, tool_name, context))
          /\ last' = Called("push", tool_name, NonDictValue, TRUE)
    /\ UNCHANGED askvars

StackPop ==
    /\ Becomes(pop(ThisStack))
    /\ last' = Called("pop", "-", NonDictValue, TRUE)
    /\ UNCHANGED askvars

StackClear ==
    /\ Becomes(clear(ThisStack))
    /\ last' = Called("clear", "-", NonDictValue, TRUE)
    /\ UNCHANGED askvars

StackSetOriginalPrompt ==
    /\ \E prompt \in Prompts : Becomes(set_original_prompt(ThisStack, prompt))
    /\ last' = Called("set_original_prompt", "-", NonDictValue, TRUE)
    /\ UNCHANGED askvars

StackHandleEmptyResponse ==
    /\ \E response \in {"y", "n"} :
          Becomes(handle_empty_response(ThisStack, response).ts)
    /\ last' = Called("handle_empty_response", "-", NonDictValue, TRUE)
    /\ UNCHANGED askvars

StackProcessToolResult ==
    /\ Len(stack) <= MaxDepth
    /\ \E tool_name \in ToolNames, result \in ResultValues, success \in BOOLEAN :
          /\ Becomes(process_tool_result(ThisStack, tool_name, result, success))
          /\ last' = Called("process_tool_result", tool_name, result, success)
    /\ UNCHANGED askvars

StackNext ==
    \/ StackPush
    \/ StackPop
    \/ StackClear
    \/ StackSetOriginalPrompt
    \/ StackHandleEmptyResponse
    \/ StackProcessToolResult

SpecStack == StackInit /\ [][StackNext]_vars

(***************************************************************************)
(* Properties of the ToolStack methods (checked under SpecStack)           *)
(***************************************************************************)
ProcessedResult == last.op = "process_tool_result"

\* C2: process_tool_result with success = false leaves the stack empty and
\* original_prompt None, whatever the depth before and whatever the result
\* carries: none of the instructions, next_tool and complete rules runs.
C2_FailureClearsStack ==
    (ProcessedResult /\ ~last.success) =>
        /\ stack = <<>>
        /\ original_prompt = None

\* A failed result that carries instructions and next_tool, on a stack of
\* two frames.
C2_Witness ==
    /\ ProcessedResult /\ ~last.success
    /\ Len(last.pre.stack) >= 2
    /\ last.pre.original_prompt # None
    /\ last.result.status = "success" /\ last.result.instructions # Absent
    /\ last.result.next_tool # Absent

CompleteOnly ==
    /\ ProcessedResult /\ last.success
    /\ last.result.isdict /\ last.result.status = "complete"
    /\ last.result.instructions = Absent /\ last.result.next_tool = Absent

\* C3: a successful result with status 'complete' and neither instructions
\* nor next_tool removes exactly the top frame and keeps every frame beneath
\* it; on an empty stack it changes nothing.
C3_CompletePopsOne ==
    CompleteOnly =>
        /\ original_prompt = last.pre.original_prompt
        /\ max_stack_depth = last.pre.max_stack_depth
        /\ IF last.pre.stack = <<>>
           THEN stack = <<>>
           ELSE /\ Len(stack) = Len(last.pre.stack) - 1
                /\ \A i \in 1..Len(stack) : stack[i] = last.pre.stack[i]

\* A complete result on a stack with a frame beneath the top.
C3_Witness ==
    /\ CompleteOnly
    /\ Len(last.pre.stack) = 2
    /\ Len(stack) = 1 /\ stack[1] = last.pre.stack[1]

\* C4: clear() leaves the stack empty and original_prompt None.
C4_ClearResets ==
    last.op = "clear" => (stack = <<>> /\ original_prompt = None)

\* clear() on a stack of two frames with a recorded prompt.
C4_Witness ==
    /\ last.op = "clear"
    /\ Len(last.pre.stack) >= 2
    /\ last.pre.original_prompt # None
    /\ stack = <<>>

\* C8: a mapping result with status 'error' is a failure whatever success
\* flag comes with it: processing it clears the stack.
C8_ErrorStatusClearsStack ==
    (ProcessedResult /\ last.result.isdict /\ last.result.status = "error") =>
        stack = <<>>

(***************************************************************************)
(* SpecTool: Tool.execute called with any keyword arguments on any tool.   *)
(***************************************************************************)
Tools ==
    {Tool("calc", u, m) : u \in {NoHook, HookRaises, "", UsageText}, m \in BOOLEAN}

Modes == {Absent, "get_usage_instructions", "verbose"}

Behaviours ==
    {Returns(v) : v \in {NonDictValue, EmptyDict, InstructionsValue(UsageText),
                         InstructionsValue(""), ErrorValue("unsupported unit")}}
    \cup {Raises(c, m) : c \in {"Exception", "BaseException"},
                         m \in {"bad input", ""}}

ToolInit ==
    /\ ToolStackInit
    /\ pc = "idle" /\ tool_calls = <<>> /\ results = <<>> /\ processed = 0
    /\ handled = NoHandled /\ executed = NoExecute /\ turn = NoTurn
    /\ history = <<>> /\ sent = <<>> /\ reply = NoReply
    /\ given = None /\ returned = None /\ file = None

ToolExecute ==
    /\ \E tool \in Tools, mode \in Modes, behaviour \in Behaviours :
          executed' = Executed(tool, mode, behaviour)
    /\ UNCHANGED <<tsvars, last, pc, tool_calls, results, processed, handled, turn,
                   history, sent, reply, libvars>>

SpecTool == ToolInit /\ [][ToolExecute]_vars

CallableRaised == executed.outcome.invoked /\ executed.behaviour.kind = "raise"

\* C10 as claimed: Tool.execute never raises, and every exception of the
\* wrapped callable comes back as {status: 'error', message: str(exception)}.
C10_ExecuteNeverRaises ==
    CallableRaised =>
        /\ executed.outcome.kind # "raise"
        /\ executed.outcome.value = ErrorValue(executed.behaviour.exc.message)

(***************************************************************************)
(* Spec: a chat session.  The user asks questions, the model answers with  *)
(* any tool calls, the tools return or raise anything.                     *)
(***************************************************************************)
MaxCalls == 1
MaxStartDepth == 1

Registry == {Tool("calc", UsageText, FALSE), Tool("convert", NoHook, TRUE)}

Question(text, phrase, long, question_mark) ==
    [text |-> text, phrase |-> phrase, long |-> long, question_mark |-> question_mark]

Questions ==
    {Question("mortgage for 300000", FALSE, FALSE, FALSE),
     Question("never mind", TRUE, FALSE, FALSE),
     Question("what is the rate for a loan of 300000?", FALSE, TRUE, TRUE),
     Question("", FALSE, FALSE, FALSE)}

Calls == {Call("calc", Absent), Call("convert", Absent), Call("ghost", Absent)}

Responses == SeqsUpTo(Calls, MaxCalls)

CallableBehaviours ==
    {Returns(v) : v \in {NonDictValue,
                         Value(TRUE, "needs_parameters", Absent, Absent, AbsentContext),
                         Value(TRUE, "complete", Absent, Absent, AbsentContext),
                         Value(TRUE, "success", Absent, "calc", SuppliedContext)}}
    \cup {Raises("Exception", "bad input")}

SessionLimit == DEFAULT_MAX_STACK_DEPTH

Outputs ==
    {AsOutput(calls) : calls \in Responses}
    \cup {<<SkippedBlock>>, <<ScalarBlock>>,
          <<ToolCallBlock(Call("calc", Absent)), ScalarBlock>>}

Commands == {"/help", "/cancel", "/clear", "/frobnicate"}

Begin ==
    /\ Len(stack) <= MaxStartDepth
    /\ BeginTurn(Questions, Outputs)

Slash == Command(Commands)

Prepares == {Returns(NonDictValue), Raises("Exception", "could not convert")}

Handle == HandleCall(Registry, Prepares, CallableBehaviours, SessionLimit)

Next == Slash \/ Begin \/ Handle \/ ProcessResult \/ FinishTurn

Spec == AskInit /\ [][Next]_vars

(***************************************************************************)
(* SpecDeep: a chat session whose model keeps calling a tool that answers *)
(* every call with instructions, so that the stack reaches the depth guard. *)
(***************************************************************************)
BurstLen == 22
MaxApprovals == 2
MaxDeepStart == 41

DeepRegistry == {Tool("loop", UsageText, FALSE)}

DeepQuestions == {Question("keep going", FALSE, FALSE, FALSE)}

LoopCall == Call("loop", Absent)

DeepResponses ==
    {<<LoopCall>>, <<LoopCall, LoopCall>>, <<Call("ghost", Absent)>>,
     <<Call("ghost", Absent), LoopCall>>, [i \in 1..BurstLen |-> LoopCall]}

DeepBehaviours == {Returns(InstructionsValue(UsageText))}

DeepLimit == DEFAULT_MAX_STACK_DEPTH + MaxApprovals * DEPTH_EXTENSION

DeepBegin ==
    /\ Len(stack) <= MaxDeepStart
    /\ BeginTurn(DeepQuestions, {AsOutput(calls) : calls \in DeepResponses})

DeepHandle == HandleCall(DeepRegistry, {Returns(NonDictValue)}, DeepBehaviours, DeepLimit)

DeepNext == DeepBegin \/ DeepHandle \/ ProcessResult \/ FinishTurn

SpecDeep == AskInit /\ [][DeepNext]_vars

(***************************************************************************)
(* Properties of the chat session                                          *)
(***************************************************************************)
\* The entry of tool_results that the last iteration of the loop appended.
Appended == results[Len(results)]

JustHandled == handled.branch # "none" /\ processed = 0 /\ ~turn.escaped

\* The i-th tool result is the one that has just been processed.
JustProcessed(i) == pc = "process" /\ processed = i /\ i >= 1

\* C1: in every reachable state the depth of the stack is at most
\* max_stack_depth, which is 20 plus 20 for each extension the user
\* approved at the depth guard.
C1_DepthWithinLimit ==
    /\ max_stack_depth = DEFAULT_MAX_STACK_DEPTH + DEPTH_EXTENSION * turn.approved
    /\ Len(stack) <= max_stack_depth

\* C5: the depth guard runs before a call is handled and asks exactly when
\* depth >= max_stack_depth; on approval max_stack_depth grows by 20, the
\* stack is unchanged and the call is handled; on refusal the stack is
\* cleared and the call yields the failed result 'Tool stack depth limit
\* reached' without lookup or invocation; hence no callable is invoked
\* while depth >= max_stack_depth.
C5_DepthGuard ==
    JustHandled =>
        /\ handled.asked <=> get_depth(handled.before) >= handled.before.max_stack_depth
        /\ (~handled.asked) => handled.at = handled.before
        /\ (handled.asked /\ handled.branch # "depth_limit") =>
              /\ handled.at.max_stack_depth =
                    handled.before.max_stack_depth + DEPTH_EXTENSION
              /\ handled.at.stack = handled.before.stack
              /\ handled.at.original_prompt = handled.before.original_prompt
        /\ handled.branch = "depth_limit" =>
              /\ handled.asked
              /\ handled.at.stack = <<>>
              /\ stack = <<>>
              /\ ~handled.looked_up /\ ~handled.invoked
              /\ ~Appended.success /\ Appended.error = DepthLimitMessage
        /\ handled.invoked => get_depth(handled.at) < handled.at.max_stack_depth

\* C6: when the stack is at max_stack_depth and the user declines the
\* extension, the turn ends with an empty stack, whatever else the model
\* response contained.
C6_DeclineLeavesEmptyStack ==
    (pc = "idle" /\ turn.declined /\ turn.declined_at = max_stack_depth) => stack = <<>>

\* C7: when a tool's callable raises while it is executed in an active
\* workflow, the ToolResult of the call has success = false and error equal
\* to the exception's message, the stack is cleared when that result is
\* processed, and no exception escapes ask.
C7_RaiseFailsAndClears ==
    /\ (JustHandled /\ handled.branch = "executed" /\ handled.invoked
            /\ executed.behaviour.kind = "raise") =>
          /\ ~Appended.success
          /\ Appended.error = executed.behaviour.exc.message
    /\ \A i \in 1..Len(results) :
          (JustProcessed(i) /\ results[i].how = "callable_raised") => stack = <<>>
    /\ ~(handled.branch = "escaped" /\ handled.invoked /\ handled.at.stack # <<>>)

\* The name is of no registered tool.
Unknown(tool_name) == ~Registered(Registry \cup DeepRegistry, tool_name)

\* C9 as claimed: every call naming a tool that is not in the registry
\* yields a failed ToolResult whose error names the tool.
C9_UnknownToolNamed ==
    \A i \in 1..Len(results) :
        Unknown(results[i].tool) =>
            /\ ~results[i].success
            /\ results[i].error = NotFoundMessage(results[i].tool)

\* C9 as the code has it: a call naming a tool that is not in the registry
\* yields a failed ToolResult and invokes no callable; its error names the
\* tool unless the depth guard refused the call, and then it is 'Tool stack
\* depth limit reached'; processing the result clears the stack and
\* original_prompt.
C9_UnknownToolFails ==
    /\ \A i \in 1..Len(results) :
          Unknown(results[i].tool) =>
              /\ ~results[i].success
              /\ ~results[i].has_result
              /\ results[i].error = IF results[i].how = "depth_limit"
                                    THEN DepthLimitMessage
                                    ELSE NotFoundMessage(results[i].tool)
              /\ JustProcessed(i) => stack = <<>> /\ original_prompt = None
    /\ (JustHandled /\ Unknown(handled.tool)) =>
              /\ ~handled.invoked
              /\ executed = NoExecute
              /\ handled.branch \in {"depth_limit", "not_found"}
              /\ handled.branch = "depth_limit" <=> handled.asked /\ stack = <<>>

\* An unknown tool was called in an active workflow, its result names it
\* and processing it has just emptied the stack.
C9_Witness ==
    /\ JustProcessed(1)
    /\ results[1].how = "not_found"
    /\ results[1].error = "Tool 'ghost' not found"
    /\ last.pre.stack # <<>>
    /\ stack = <<>> /\ original_prompt = None

(***************************************************************************)
(* Properties of a turn                                                    *)
(***************************************************************************)
\* ask has just run up to the parse of the first model response.
AskStarted == last.op = "ask"

\* A call of ask is over: it returned or an exception left it.
AskOver == pc = "idle" /\ reply # NoReply

\* C11: every call of ask ends by returning a text, whatever the model
\* outputs and whatever the tools do: no exception leaves ask.
C11_AskAlwaysReplies ==
    AskOver => /\ reply.kind = "text"
               /\ ~turn.escaped

\* The step is a call of ask with a command.
CommandStep == last'.op = "command"

\* C12 as stated: a command returns the handler's text, calls no model and
\* leaves the conversation history as it was, whatever the command.
C12_CommandsKeepHistory ==
    [][CommandStep => /\ reply'.kind = "text"
                      /\ sent' = <<>>
                      /\ pc' = "idle"
                      /\ history' = history]_vars

\* C12 as the code has it: a command returns the handler's text and calls
\* no model; the history is unchanged by every command but /clear, which
\* empties it.
C12_CommandsKeepHistoryButClear ==
    [][CommandStep => /\ reply'.kind = "text"
                      /\ sent' = <<>>
                      /\ pc' = "idle"
                      /\ history' = IF last'.tool = "/clear" THEN <<>> ELSE history]_vars

\* /clear was given after a turn had filled the history, and emptied it.
C12_Witness ==
    /\ last.op = "command"
    /\ last.tool = "/clear"
    /\ turn.had_history
    /\ history = <<>>
    /\ reply = Text("Chat history and tool stack cleared")
    /\ sent = <<>>

\* C13: when a question is taken as a context switch during a workflow, the
\* stack is cleared first: original_prompt is then recorded as this
\* question, the system prompt of the first model call carries no workflow
\* narration, and the question is sent as the start of a new workflow.
C13_SwitchClearsFirst ==
    (AskStarted /\ turn.switched) =>
        /\ last.pre.stack # <<>>
        /\ stack = <<>>
        /\ original_prompt = turn.question.text
        /\ Len(sent) = 1
        /\ sent[1][1].role = "system"
        /\ sent[1][1].narration = NoNarration
        /\ sent[1][Len(sent[1])] =
               Message("user", SelectPrefix \o turn.question.text, NoNarration)

\* A workflow begun by one request was abandoned by a context switch.
C13_Witness ==
    /\ AskStarted
    /\ turn.switched
    /\ last.pre.stack # <<>>
    /\ last.pre.original_prompt = "mortgage for 300000"
    /\ original_prompt = "never mind"
    /\ stack = <<>>
    /\ Len(sent) = 1

\* The step is a call of ask with an empty input during a workflow.
EmptyInputStep ==
    /\ last'.op = "ask"
    /\ turn'.question.text = ""
    /\ stack # <<>>

\* C14: an empty input during a workflow asks the user to continue or
\* cancel.  On cancel the stack and original_prompt are cleared, ask
\* returns the cancellation message, no model call is made and the history
\* is unchanged; on continue the stack (and original_prompt) are unchanged
\* and the turn goes on to the model.
C14_EmptyInputConfirms ==
    [][EmptyInputStep =>
          IF turn'.cancelled
          THEN /\ stack' = <<>>
               /\ original_prompt' = None
               /\ reply' = Text(CancelledMessage)
               /\ sent' = <<>>
               /\ history' = history
               /\ pc' = "idle"
          ELSE /\ stack' = stack
               /\ original_prompt' = original_prompt
               /\ Len(sent') = 1]_vars

\* The user cancelled a workflow on an empty input, with a history.
C14_Witness ==
    /\ AskStarted
    /\ turn.question.text = ""
    /\ turn.cancelled
    /\ turn.had_history
    /\ last.pre.stack # <<>>
    /\ last.pre.original_prompt # None
    /\ stack = <<>>
    /\ reply = Text(CancelledMessage)

\* The step is the start of a turn that goes on past the context-switch
\* and empty-input checks.
TurnStartStep ==
    /\ last'.op = "ask"
    /\ ~turn'.cancelled

\* C15: at the start of a turn, after the context-switch and empty-input
\* checks, original_prompt becomes the question exactly when the stack is
\* empty and the question is not; otherwise, in particular whenever the
\* stack is non-empty, the start of the turn leaves it as it was.
C15_PromptRecordedAtWorkflowStart ==
    [][TurnStartStep =>
          /\ (stack' = <<>> /\ turn'.question.text # "")
                 => original_prompt' = turn'.question.text
          /\ stack' # <<>>
                 => /\ original_prompt' = original_prompt
                    /\ stack' = stack
          /\ (stack' = <<>> /\ turn'.question.text = "")
                 => original_prompt' = original_prompt]_vars

\* A turn of a workflow with another question kept the request that began
\* the workflow.
C15_Witness ==
    /\ AskStarted
    /\ ~turn.cancelled
    /\ stack # <<>>
    /\ last.pre.stack = stack
    /\ turn.question.text = "what is the rate for a loan of 300000?"
    /\ original_prompt = "mortgage for 300000"
    /\ last.pre.original_prompt = original_prompt

\* The model calls made by the call of ask that is over.
ModelCalls == Len(sent)

\* C16: ask makes at most two model calls: none for a command and for a
\* workflow cancelled on an empty input, exactly one when the first
\* response holds no tool call, exactly two when it holds at least one.
C16_ModelCallsPerTurn ==
    /\ ModelCalls <= 2
    /\ AskOver =>
          ModelCalls = IF last.op = "command" \/ turn.cancelled THEN 0
                       ELSE IF turn.called THEN 2
                       ELSE 1

\* g is h with entries appended.
Extends(h, g) == Len(g) >= Len(h) /\ SubSeq(g, 1, Len(h)) = h

\* The entries that the call of ask that is over appended to the history.
TurnEntries == SubSeq(history, IF turn.had_history THEN 2 ELSE 1, Len(history))

\* A turn that reached the model is over.
ModelTurnOver == AskOver /\ last.op # "command" /\ ~turn.cancelled

\* C17: a turn that reaches the model only appends to the history: the
\* user input and the first output when the first response has no tool
\* call; the user input, the first output, the tool context message and
\* the second output, in this order, when it has tool calls.
C17_TurnAppends ==
    /\ [][last'.op # "command" =>
             Extends(history, history') \/ Extends(Fold(history), history')]_vars
    /\ [](ModelTurnOver =>
             /\ Len(TurnEntries) = IF turn.called THEN 4 ELSE 2
             /\ TurnEntries[1] = Message("user", turn.question.text, NoNarration)
             /\ TurnEntries[2] = FirstOutput
             /\ turn.called => /\ TurnEntries[3].role = "system"
                               /\ TurnEntries[4] = SecondOutput)

\* C18: the second model call of a turn is sent the interpretation context
\* built in this turn: its message list contains the tool context message
\* made from the turn's tool results and differs from the first call's.
C18_SecondCallGetsToolContext ==
    Len(sent) = 2 =>
        /\ \E i \in 1..Len(sent[2]) : sent[2][i] = TurnEntries[3]
        /\ sent[2] # sent[1]

\* C19: a call of a registered tool handled while the stack is empty does
\* not invoke the tool's callable: its result is the usage-instructions
\* payload, and processing it pushes one frame for the tool with status
\* 'initializing'.  The callable is invoked only by a call handled while
\* the stack is non-empty.
C19_EmptyStackFetchesInstructions ==
    /\ (JustHandled /\ handled.at.stack = <<>> /\ ~Unknown(handled.tool)) =>
          /\ ~handled.invoked
          /\ Appended.success
          /\ Appended.has_result
          /\ Appended.result.isdict
          /\ Appended.result.status = "success"
          /\ Appended.result.instructions # Absent
    /\ handled.invoked => handled.at.stack # <<>>
    /\ \A i \in 1..Len(results) :
          (JustProcessed(i) /\ results[i].how = "usage_instructions") =>
              stack = Append(last.pre.stack, Frame(results[i].tool, InitializingContext))

\* A successful result that carries next_tool and status 'complete' has
\* just been processed on a non-empty stack.
ChainAndComplete ==
    /\ ProcessedResult /\ last.success
    /\ last.result.isdict
    /\ last.result.status = "complete"
    /\ last.result.next_tool # Absent
    /\ last.pre.stack # <<>>

\* C20: a successful result with both next_tool and status 'complete'
\* makes the top frame hand off and retire in one step: afterwards the
\* frame that was on top is gone, a frame for next_tool is on top and the
\* depth is the same.
C20_HandOffAndRetire ==
    ChainAndComplete =>
        /\ Len(stack) = Len(last.pre.stack)
        /\ stack = Append(SubSeq(last.pre.stack, 1, Len(last.pre.stack) - 1),
                          Frame(last.result.next_tool,
                                IF last.result.context = AbsentContext
                                THEN EmptyContext ELSE last.result.context))

(***************************************************************************)
(* Further properties of the ToolStack                                     *)
(***************************************************************************)
\* A successful result that names next_tool, without instructions and
\* without status 'complete', has just been processed.
NextToolOnly ==
    /\ ProcessedResult /\ last.success
    /\ last.result.isdict
    /\ last.result.next_tool # Absent
    /\ last.result.instructions = Absent
    /\ last.result.status # "complete"

\* C21: a successful result that names next_tool (no instructions, no
\* status 'complete') pushes exactly one frame named next_tool, with the
\* context the result supplies or an empty mapping; the frames already on
\* the stack stay beneath it, unchanged and in order.
C21_NextToolPushesOne ==
    NextToolOnly =>
        /\ Len(stack) = Len(last.pre.stack) + 1
        /\ SubSeq(stack, 1, Len(last.pre.stack)) = last.pre.stack
        /\ stack[Len(stack)].tool = last.result.next_tool
        /\ stack[Len(stack)].context =
               IF last.result.context = AbsentContext
               THEN EmptyContext ELSE last.result.context
        /\ original_prompt = last.pre.original_prompt
        /\ max_stack_depth = last.pre.max_stack_depth

\* A next_tool result with a context, processed on a stack of two frames.
C21_Witness ==
    /\ NextToolOnly
    /\ Len(last.pre.stack) = 2
    /\ last.result.context = SuppliedContext
    /\ Len(stack) = 3
    /\ stack[3] = Frame("calc", SuppliedContext)

(***************************************************************************)
(* SpecParse: the MessageHandler's functions on any text                   *)
(* (taco/core/message_handler.py).  A text is a sequence of segments: a    *)
(* fenced json block (ToolCallBlock, SkippedBlock, ScalarBlock), a run of  *)
(* prose or a run of whitespace.  A segment is atomic: the source text of  *)
(* a block is the block itself.  Each behaviour is one call on one text.   *)
(***************************************************************************)
MaxSegments == 3

Prose == [kind |-> "prose", call |-> Call("-", Absent)]
Space == [kind |-> "space", call |-> Call("-", Absent)]

Segments ==
    {Prose, Space, SkippedBlock, ScalarBlock,
     ToolCallBlock(Call("calc", Absent)), ToolCallBlock(Call("convert", Absent))}

Texts == SeqsUpTo(Segments, MaxSegments)

\* str.strip(): the text without its leading and trailing whitespace.
RECURSIVE lstrip(_)
lstrip(text) ==
    IF text # <<>> /\ Head(text) = Space THEN lstrip(Tail(text)) ELSE text

RECURSIVE rstrip(_)
rstrip(text) ==
    IF text # <<>> /\ text[Len(text)] = Space
    THEN rstrip(SubSeq(text, 1, Len(text) - 1))
    ELSE text

strip(text) == lstrip(rstrip(text))

\* str.replace(original_text, ''): every occurrence of the call's block is
\* removed.
RECURSIVE replace(_, _)
replace(text, call) ==
    IF text = <<>> THEN <<>>
    ELSE IF Head(text) = ToolCallBlock(call) THEN replace(Tail(text), call)
    ELSE <<Head(text)>> \o replace(Tail(text), call)

\* strip_tool_calls_from_response
RECURSIVE replace_all(_, _)
replace_all(text, calls) ==
    IF calls = <<>> THEN text
    ELSE replace_all(replace(text, Head(calls)), Tail(calls))

strip_tool_calls_from_response(response, calls) == strip(replace_all(response, calls))

\* The record of a call of a function: its name and arguments, and how it
\* ended.
Given(op, text, calls) == [op |-> op, text |-> text, calls |-> calls]
ReturnedCalls(parsed) == [kind |-> parsed.kind, calls |-> parsed.calls, text |-> <<>>]
ReturnedText(text) == [kind |-> "return", calls |-> <<>>, text |-> text]
RaisedInstead == [kind |-> "raise", calls |-> <<>>, text |-> <<>>]
NotCalled == [kind |-> "none", calls |-> <<>>, text |-> <<>>]

ParseInit ==
    /\ ToolStackInit
    /\ pc = "idle" /\ tool_calls = <<>> /\ results = <<>> /\ processed = 0
    /\ handled = NoHandled /\ executed = NoExecute /\ turn = NoTurn
    /\ history = <<>> /\ sent = <<>> /\ reply = NoReply
    /\ \E text \in Texts : given = Given("none", text, <<>>)
    /\ returned = NotCalled
    /\ file = None

\* parse_tool_calls(text)
ParseToolCalls ==
    /\ given.op = "none"
    /\ given' = Given("parse_tool_calls", given.text, <<>>)
    /\ returned' = ReturnedCalls(parse_tool_calls(given.text))
    /\ UNCHANGED <<tsvars, last, pc, tool_calls, results, processed, handled, executed,
                   turn, history, sent, reply, file>>

\* strip_tool_calls_from_response(text, parse_tool_calls(text)), as ask
\* calls it.
StripParsedCalls ==
    /\ given.op = "none"
    /\ LET parsed == parse_tool_calls(given.text)
       IN  /\ given' = Given("strip_parsed", given.text, parsed.calls)
           /\ returned' = IF parsed.kind = "raise"
                          THEN RaisedInstead
                          ELSE ReturnedText(
                                   strip_tool_calls_from_response(given.text,
                                                                  parsed.calls))
    /\ UNCHANGED <<tsvars, last, pc, tool_calls, results, processed, handled, executed,
                   turn, history, sent, reply, file>>

\* strip_tool_calls_from_response(text, calls) for any list of calls.
StripToolCalls ==
    /\ given.op = "none"
    /\ \E calls \in {<<>>, <<Call("calc", Absent)>>} :
          /\ given' = Given("strip_tool_calls_from_response", given.text, calls)
          /\ returned' = ReturnedText(strip_tool_calls_from_response(given.text, calls))
    /\ UNCHANGED <<tsvars, last, pc, tool_calls, results, processed, handled, executed,
                   turn, history, sent, reply, file>>

ParseNext == ParseToolCalls \/ StripParsedCalls \/ StripToolCalls

SpecParse == ParseInit /\ [][ParseNext]_vars

\* The calls of the well-formed tool-call blocks of a text, in order.
WellFormedCalls(text) ==
    LET blocks == SelectSeq(text, IsToolCallBlock)
    IN  [i \in 1..Len(blocks) |-> blocks[i].call]

\* The text has a fenced json block that is no well-formed tool call.
HasMalformedBlock(text) ==
    \E i \in 1..Len(text) : text[i].kind \in {"skipped", "scalar"}

\* C22: a fenced json block that is no well-formed tool call contributes
\* no call and does not make parse_tool_calls raise; the other blocks of
\* the text are parsed all the same.
C22_MalformedBlocksSkipped ==
    (given.op = "parse_tool_calls" /\ HasMalformedBlock(given.text)) =>
        /\ returned.kind = "return"
        /\ returned.calls = WellFormedCalls(given.text)

\* The text without its well-formed tool-call blocks, everything else as
\* it is.
WithoutToolCalls(text) ==
    LET NotToolCall(segment) == ~IsToolCallBlock(segment)
    IN  SelectSeq(text, NotToolCall)

\* C23: parse_tool_calls returns exactly the well-formed tool-call blocks
\* of a text, in order, and strip_tool_calls_from_response with these
\* calls removes exactly their spans: the rest of the text is untouched and
\* the result holds no well-formed tool-call block.
C23_ParseThenStrip ==
    given.op = "strip_parsed" =>
        /\ returned.kind = "return"
        /\ given.calls = WellFormedCalls(given.text)
        /\ returned.text = WithoutToolCalls(given.text)
        /\ \A i \in 1..Len(returned.text) : ~IsToolCallBlock(returned.text[i])

\* C24: strip_tool_calls_from_response with an empty call list returns its
\* input unchanged.
C24_StripNothingIsIdentity ==
    (given.op = "strip_tool_calls_from_response" /\ given.calls = <<>>) =>
        /\ returned.kind = "return"
        /\ returned.text = given.text

(***************************************************************************)
(* SpecConvert: Tool.convert_argument on any declared type and raw value   *)
(* (taco/tools/registry.py).  A string is the sequence of its characters;  *)
(* a number is kept as its value times Scale, so that the decimals of the  *)
(* strings explored are exact.  Each behaviour is one call, or one call    *)
(* and a second call on its result.                                        *)
(***************************************************************************)
MaxChars == 3

Digits == {"0", "1"}
DigitValue(c) == IF c = "1" THEN 1 ELSE 0
Alphabet == Digits \cup {".", "-", "a", "(", ")", ","}

RECURSIVE Pow10(_)
Pow10(n) == IF n = 0 THEN 1 ELSE 10 * Pow10(n - 1)

Scale == Pow10(MaxChars)

\* Python values: str, None, bool, int, float, tuple and list of int, and
\* the list of the characters of a string.
StrValue(chars) == [type |-> "str", chars |-> chars, num |-> 0, items |-> <<>>]
NoneValue == [type |-> "None", chars |-> <<>>, num |-> 0, items |-> <<>>]
BoolValue(b) == [type |-> "bool", chars |-> <<>>, num |-> IF b THEN Scale ELSE 0,
                 items |-> <<>>]
Number(type, scaled) == [type |-> type, chars |-> <<>>, num |-> scaled, items |-> <<>>]
TupleValue(items) == [type |-> "tuple", chars |-> <<>>, num |-> 0, items |-> items]
ListValue(chars, items) == [type |-> "list", chars |-> chars, num |-> 0, items |-> items]

\* How a call ended.
Converted(value) == [kind |-> "return", value |-> value]
ConvertRaised == [kind |-> "raise", value |-> NoneValue]
NotConverted == [kind |-> "none", value |-> NoneValue]

RECURSIVE ToNat(_)
ToNat(digits) ==
    IF digits = <<>> THEN 0
    ELSE 10 * ToNat(SubSeq(digits, 1, Len(digits) - 1)) + DigitValue(digits[Len(digits)])

Unsigned(s) == IF s # <<>> /\ Head(s) = "-" THEN Tail(s) ELSE s
Sign(s) == IF s # <<>> /\ Head(s) = "-" THEN -1 ELSE 1

\* int(s) and float(s) of a string of digits, '.' and '-': whether it
\* parses and the number it gives.
IsIntLiteral(s) ==
    /\ Unsigned(s) # <<>>
    /\ \A i \in 1..Len(Unsigned(s)) : Unsigned(s)[i] \in Digits

IntOf(s) == Number("int", Sign(s) * ToNat(Unsigned(s)) * Scale)

IsDigit(c) == c \in Digits
IsDot(c) == c = "."

IsFloatLiteral(s) ==
    /\ \A i \in 1..Len(Unsigned(s)) : Unsigned(s)[i] \in Digits \cup {"."}
    /\ Len(SelectSeq(Unsigned(s), IsDot)) <= 1
    /\ Len(SelectSeq(Unsigned(s), IsDigit)) >= 1

RECURSIVE WholePart(_)
WholePart(s) ==
    IF s = <<>> \/ Head(s) = "." THEN <<>> ELSE <<Head(s)>> \o WholePart(Tail(s))

FractionPart(s) ==
    IF Len(WholePart(s)) = Len(s) THEN <<>>
    ELSE SubSeq(s, Len(WholePart(s)) + 2, Len(s))

FloatOf(s) ==
    LET u == Unsigned(s)
    IN  Number("float",
               Sign(s) * (ToNat(WholePart(u)) * Scale
                          + ToNat(FractionPart(u)) * Pow10(MaxChars - Len(FractionPart(u)))))

\* value.strip('()')
RECURSIVE lstrip_parens(_)
lstrip_parens(s) ==
    IF s # <<>> /\ Head(s) \in {"(", ")"} THEN lstrip_parens(Tail(s)) ELSE s

RECURSIVE rstrip_parens(_)
rstrip_parens(s) ==
    IF s # <<>> /\ s[Len(s)] \in {"(", ")"}
    THEN rstrip_parens(SubSeq(s, 1, Len(s) - 1))
    ELSE s

\* str.split(',')
RECURSIVE split(_)
split(s) ==
    IF \A i \in 1..Len(s) : s[i] # ","
    THEN <<s>>
    ELSE LET k == CHOOSE i \in 1..Len(s) : s[i] = "," /\ \A j \in 1..(i - 1) : s[j] # ","
         IN  <<SubSeq(s, 1, k - 1)>> \o split(SubSeq(s, k + 1, Len(s)))

\* The tuple branch: tuple(int(x.strip()) for x in value.strip('()').split(',')),
\* or the ValueError it catches.
TupleParts(chars) == split(rstrip_parens(lstrip_parens(chars)))

IsTupleText(value) ==
    /\ value.type = "str"
    /\ Head(value.chars) = "("
    /\ value.chars[Len(value.chars)] = ")"
    /\ \A i \in 1..Len(TupleParts(value.chars)) : IsIntLiteral(TupleParts(value.chars)[i])

TupleOf(chars) ==
    TupleValue([i \in 1..Len(TupleParts(chars)) |->
                   Sign(TupleParts(chars)[i]) * ToNat(Unsigned(TupleParts(chars)[i]))])

\* bool(value) of a value that is no string
Truthy(value) ==
    IF value.type \in {"bool", "int", "float"} THEN value.num # 0
    ELSE value.items # <<>> \/ value.chars # <<>>

IsCleanChar(c) == c \in Digits \cup {".", "-"}

\* int(value) and float(value) of a value that is no string
Truncated(scaled) ==
    IF scaled >= 0 THEN (scaled \div Scale) * Scale ELSE -(((-scaled) \div Scale) * Scale)

NumericOf(target_type, value) ==
    IF value.type \in {"bool", "int", "float"}
    THEN Converted(Number(target_type,
                          IF target_type = "int" THEN Truncated(value.num) ELSE value.num))
    ELSE ConvertRaised

\* Tool.convert_argument(name, value), target_type the hint of parameter
\* name ("Any": no hint).
convert_argument(target_type, value) ==
    IF value = StrValue(<<>>) \/ value = NoneValue
    THEN Converted(value)
    ELSE IF IsTupleText(value)
    THEN Converted(TupleOf(value.chars))
    ELSE IF target_type = "bool"
    THEN IF value.type = "str"
         THEN Converted(BoolValue(value.chars = <<"1">>))
         ELSE Converted(BoolValue(Truthy(value)))
    ELSE IF target_type \in {"int", "float"}
    THEN IF value.type = "str"
         THEN LET cleaned_value == SelectSeq(value.chars, IsCleanChar)
              IN  IF cleaned_value = <<>>
                  THEN Converted(value)
                  ELSE IF target_type = "int"
                  THEN IF IsIntLiteral(cleaned_value)
                       THEN Converted(IntOf(cleaned_value)) ELSE ConvertRaised
                  ELSE IF IsFloatLiteral(cleaned_value)
                       THEN Converted(FloatOf(cleaned_value)) ELSE ConvertRaised
         ELSE NumericOf(target_type, value)
    ELSE IF target_type \in {"str", "Any"}
    THEN Converted(value)
    ELSE \* list(value), TypeError caught
         IF value.type = "str" THEN Converted(ListValue(value.chars, <<>>))
         ELSE IF value.type = "tuple" THEN Converted(ListValue(<<>>, value.items))
         ELSE Converted(value)

TargetTypes == {"bool", "int", "float", "str", "Any", "list"}

RawValues ==
    {StrValue(chars) : chars \in SeqsUpTo(Alphabet, MaxChars)}
    \cup {NoneValue, BoolValue(TRUE), BoolValue(FALSE), Number("int", 0),
          Number("int", Scale), Number("float", Scale + Scale \div 2),
          TupleValue(<<1, 1>>), ListValue(<<>>, <<1>>)}

Argument(target_type, value, times) ==
    [target_type |-> target_type, value |-> value, times |-> times]

ConvertInit ==
    /\ ToolStackInit
    /\ pc = "idle" /\ tool_calls = <<>> /\ results = <<>> /\ processed = 0
    /\ handled = NoHandled /\ executed = NoExecute /\ turn = NoTurn
    /\ history = <<>> /\ sent = <<>> /\ reply = NoReply
    /\ \E target_type \in TargetTypes, value \in RawValues :
          given = Argument(target_type, value, 0)
    /\ returned = <<NotConverted, NotConverted>>
    /\ file = None

\* convert_argument(name, value)
ConvertArgument ==
    /\ given.times = 0
    /\ given' = [given EXCEPT !.times = 1]
    /\ returned' = <<convert_argument(given.target_type, given.value), NotConverted>>
    /\ UNCHANGED <<tsvars, last, pc, tool_calls, results, processed, handled, executed,
                   turn, history, sent, reply, file>>

\* convert_argument(name, convert_argument(name, value))
ConvertArgumentAgain ==
    /\ given.times = 1
    /\ returned[1].kind = "return"
    /\ given' = [given EXCEPT !.times = 2]
    /\ returned' = <<returned[1], convert_argument(given.target_type, returned[1].value)>>
    /\ UNCHANGED <<tsvars, last, pc, tool_calls, results, processed, handled, executed,
                   turn, history, sent, reply, file>>

ConvertNext == ConvertArgument \/ ConvertArgumentAgain

SpecConvert == ConvertInit /\ [][ConvertNext]_vars

\* C25: convert_argument is idempotent and does not raise: applied to its
\* own result it returns that result again.
C25_ConvertIdempotent ==
    /\ given.times >= 1 => returned[1].kind = "return"
    /\ given.times = 2 => /\ returned[2].kind = "return"
                          /\ returned[2].value = returned[1].value

\* The parameter is declared int or float and the raw value is a string.
NumericOfString ==
    /\ given.times >= 1
    /\ given.target_type \in {"int", "float"}
    /\ given.value.type = "str"

\* C26: convert_argument never raises; for a numeric parameter and a
\* string it keeps the digits, '.' and '-' of the string and parses them,
\* and returns the raw value when they do not parse as the declared type.
C26_NumericCoercionNeverRaises ==
    /\ given.times >= 1 => returned[1].kind = "return"
    /\ NumericOfString =>
          LET cleaned_value == SelectSeq(given.value.chars, IsCleanChar)
          IN  returned[1].value =
                  IF given.target_type = "int" /\ IsIntLiteral(cleaned_value)
                  THEN IntOf(cleaned_value)
                  ELSE IF given.target_type = "float" /\ IsFloatLiteral(cleaned_value)
                  THEN FloatOf(cleaned_value)
                  ELSE given.value

(***************************************************************************)
(* SpecHistory: save_history and load_history (taco/core/chat.py).  The    *)
(* history is a sequence of {role, content} records whose strings are      *)
(* sequences of characters; the file holds what json.dump writes: for each *)
(* record the pairs of its keys and values as JSON string literals.        *)
(***************************************************************************)
MaxEntries == 2
MaxContent == 1

\* The characters of a content: a plain one, the double quote, the
\* backslash and one outside ASCII.
Characters == {"a", "quote", "backslash", "e-acute"}

Roles == {<<"user">>, <<"assistant">>}

Entry(role, content) == [role |-> role, content |-> content]

Contents == SeqsUpTo(Characters, MaxContent)

Entries == {Entry(role, content) : role \in Roles, content \in Contents}

Histories == SeqsUpTo(Entries, MaxEntries)

\* A string literal written with no escapes.
encode_string_raw(chars) == chars

\* json.dump of a string (ensure_ascii): the quote and the backslash are
\* escaped with a backslash, a character outside ASCII is written é.
RECURSIVE encode_string(_)
encode_string(chars) ==
    IF chars = <<>> THEN <<>>
    ELSE (IF Head(chars) = "quote" THEN <<"backslash", "quote">>
          ELSE IF Head(chars) = "backslash" THEN <<"backslash", "backslash">>
          ELSE IF Head(chars) = "e-acute" THEN <<"backslash", "u", "0", "0", "e", "9">>
          ELSE <<Head(chars)>>)
         \o encode_string(Tail(chars))

\* json.load of a string literal: the characters, or not ok when the
\* literal is ill-formed (a bare quote, an unknown or cut escape).
Decoded(ok, chars) == [ok |-> ok, chars |-> chars]

RECURSIVE decode_string(_)
decode_string(text) ==
    IF text = <<>> THEN Decoded(TRUE, <<>>)
    ELSE IF Head(text) = "quote" THEN Decoded(FALSE, <<>>)
    ELSE IF Head(text) # "backslash"
    THEN LET rest == decode_string(Tail(text))
         IN  Decoded(rest.ok, <<Head(text)>> \o rest.chars)
    ELSE IF Len(text) >= 2 /\ text[2] \in {"quote", "backslash"}
    THEN LET rest == decode_string(SubSeq(text, 3, Len(text)))
         IN  Decoded(rest.ok, <<text[2]>> \o rest.chars)
    ELSE IF Len(text) >= 6 /\ SubSeq(text, 2, 6) = <<"u", "0", "0", "e", "9">>
    THEN LET rest == decode_string(SubSeq(text, 7, Len(text)))
         IN  Decoded(rest.ok, <<"e-acute">> \o rest.chars)
    ELSE Decoded(FALSE, <<>>)

\* json.dump(self.history, f): the keys of each record in their order.
json_dump(h) ==
    [i \in 1..Len(h) |->
        <<<<encode_string(<<"role">>), encode_string(h[i].role)>>,
          <<encode_string(<<"content">>), encode_string(h[i].content)>>>>]

\* json.load(f): the records, or not ok when a literal is ill-formed.
json_load(text) ==
    [ok |-> \A i \in 1..Len(text) : \A k \in 1..2 : \A j \in 1..2 :
                decode_string(text[i][k][j]).ok,
     value |-> [i \in 1..Len(text) |->
                   Entry(decode_string(text[i][1][2]).chars,
                         decode_string(text[i][2][2]).chars)]]

\* The file at the path: absent, or holding what was written to it.
NoFile == [exists |-> FALSE, text |-> <<>>]

Written(text) == [exists |-> TRUE, text |-> text]

\* What has been done with the history file: saved is the history that
\* save_history wrote, changed whether the session's history was replaced
\* after that.
Persisted(op, saved, changed) == [op |-> op, saved |-> saved, changed |-> changed]

HistoryInit ==
    /\ ToolStackInit
    /\ pc = "idle" /\ tool_calls = <<>> /\ results = <<>> /\ processed = 0
    /\ handled = NoHandled /\ executed = NoExecute /\ turn = NoTurn
    /\ history \in Histories
    /\ sent = <<>> /\ reply = NoReply
    /\ given = Persisted("none", <<>>, FALSE)
    /\ returned = None
    /\ file = NoFile

\* save_history(path)
SaveHistory ==
    /\ given.op = "none"
    /\ file' = Written(json_dump(history))
    /\ given' = Persisted("save", history, FALSE)
    /\ UNCHANGED <<tsvars, last, pc, tool_calls, results, processed, handled, executed,
                   turn, history, sent, reply, returned>>

\* The session's history becomes another one after the save (/clear).
ForgetHistory ==
    /\ given.op = "save"
    /\ ~given.changed
    /\ history # <<>>
    /\ history' = <<>>
    /\ given' = [given EXCEPT !.changed = TRUE]
    /\ UNCHANGED <<tsvars, last, pc, tool_calls, results, processed, handled, executed,
                   turn, sent, reply, returned, file>>

\* load_history(path): an exception of open or json.load is caught and
\* the history is left as it is.
LoadHistory ==
    /\ given.op \in {"none", "save"}
    /\ history' = IF file.exists /\ json_load(file.text).ok
                  THEN json_load(file.text).value
                  ELSE history
    /\ given' = [given EXCEPT !.op = "load"]
    /\ UNCHANGED <<tsvars, last, pc, tool_calls, results, processed, handled, executed,
                   turn, sent, reply, returned, file>>

HistoryNext == SaveHistory \/ ForgetHistory \/ LoadHistory

SpecHistory == HistoryInit /\ [][HistoryNext]_vars

\* C27: save_history followed by load_history leaves the session's
\* history equal to the sequence that was saved, in the same order.
C27_HistoryRoundTrip ==
    (given.op = "load" /\ file.exists) => history = given.saved

\* A history of two different entries, with a quote and a backslash, was
\* saved, dropped from the session and loaded again.
C27_Witness ==
    /\ given.op = "load"
    /\ given.changed
    /\ file.exists
    /\ Len(history) = 2
    /\ history[1] = Entry(<<"user">>, <<"quote">>)
    /\ history[2] = Entry(<<"assistant">>, <<"backslash">>)

(***************************************************************************)
(* SpecBackend: a chat session whose backend may raise at either model     *)
(* call of a turn.                                                         *)
(***************************************************************************)
BackendQuestions ==
    {Question("mortgage for 300000", FALSE, FALSE, FALSE),
     Question("never mind", TRUE, FALSE, FALSE)}

Backends ==
    {Fails} \cup {Responds(output) : output \in {<<>>, AsOutput(<<Call("calc", Absent)>>),
                                                 AsOutput(<<Call("ghost", Absent)>>)}}

BackendBegin ==
    /\ Len(stack) <= MaxStartDepth
    /\ BeginTurnWith(BackendQuestions, Backends)

BackendHandle == HandleCall(Registry, {Returns(NonDictValue)}, CallableBehaviours, SessionLimit)

BackendFinish ==
    FinishTurnWith({Fails, Responds(<<>>), Responds(AsOutput(<<Call("calc", Absent)>>))})

BackendNext == BackendBegin \/ BackendHandle \/ ProcessResult \/ BackendFinish

SpecBackend == AskInit /\ [][BackendNext]_vars

\* A step of ask in which a model call was made and the backend raised.
BackendFailedStep == turn'.failed

\* C28: when the backend raises during a model call, ask returns a text (the error
\* text) as the reply of the turn, the failure leaves the ToolStack as the
\* turn had it before the call (cleared by a context switch at the start of
\* ask, else as it was), and the session is ready for the next turn.
C28_BackendFailureIsText ==
    [][BackendFailedStep =>
          /\ reply'.kind = "text"
          /\ pc' = "idle"
          /\ stack' = IF pc = "idle" /\ turn'.switched THEN <<>> ELSE stack
          /\ max_stack_depth' = max_stack_depth]_vars

\* The backend raised at the first model call of a turn in a live workflow.
C28_Witness ==
    /\ turn.failed
    /\ Len(sent) = 1
    /\ reply = Text(ErrorText)
    /\ stack # <<>>
    /\ pc = "idle"

(***************************************************************************)
(* Further properties of the chat session                                  *)
(***************************************************************************)
\* A step of ask with the command /cancel.
CancelStep == last'.op = "command" /\ last'.tool = "/cancel"

NothingToCancel == "No active tool workflow to cancel."

\* C29: /cancel with an active workflow leaves the stack empty and
\* original_prompt null whatever the depth was; with no active workflow it
\* changes nothing of the ToolStack and reports that there is nothing to
\* cancel.  In both cases the history is unchanged and no model call is
\* made.
C29_CancelEndsWorkflow ==
    [][CancelStep =>
          /\ history' = history
          /\ sent' = <<>>
          /\ pc' = "idle"
          /\ IF stack # <<>>
             THEN /\ stack' = <<>>
                  /\ original_prompt' = None
                  /\ reply' = Text(CancelledMessage)
             ELSE /\ UNCHANGED tsvars
                  /\ reply' = Text(NothingToCancel)]_vars

\* /cancel was given at depth 2 in a session with a history.
C29_Witness ==
    /\ last.op = "command"
    /\ last.tool = "/cancel"
    /\ Len(last.pre.stack) = 2
    /\ stack = <<>>
    /\ original_prompt = None
    /\ history # <<>>

\* Every result of the turn has been processed: what is left of ask does
\* not touch the ToolStack.
AllProcessed == pc = "process" /\ processed = Len(results)

\* C30: if any ToolResult of a turn has success = false, the stack is empty
\* at the end of that turn, whatever the number and the order of the tool
\* calls of the model's response.
C30_FailureAbandonsWorkflow ==
    (AllProcessed /\ \E i \in 1..Len(results) : ~results[i].success) => stack = <<>>

\* An ordinary terminal result: a value that is no mapping, or a mapping
\* with no instructions, no next_tool and a status other than 'complete'.
OrdinaryTerminal(result) ==
    \/ ~result.isdict
    \/ /\ result.instructions = Absent
       /\ result.next_tool = Absent
       /\ result.status # "complete"

\* C31: process_tool_result with success = true and an ordinary terminal
\* result leaves the stack, original_prompt and max_stack_depth unchanged.
C31_TerminalResultChangesNothing ==
    (ProcessedResult /\ last.success /\ OrdinaryTerminal(last.result)) =>
        ThisStack = last.pre

\* A mapping with status 'success' and nothing else was processed at depth 2
\* of a workflow with a recorded prompt.
C31_Witness ==
    /\ ProcessedResult
    /\ last.success
    /\ last.result = Value(TRUE, "success", Absent, Absent, AbsentContext)
    /\ Len(last.pre.stack) = 2
    /\ last.pre.original_prompt # None
    /\ ThisStack = last.pre

\* The turn's only call was executed successfully and returned a terminal
\* result: no parameter request, no instructions and no next_tool.
CompletedTool ==
    /\ AllProcessed
    /\ Len(results) = 1
    /\ results[1].how = "executed"
    /\ results[1].success
    /\ results[1].has_result
    /\ \/ ~results[1].result.isdict
       \/ /\ results[1].result.instructions = Absent
          /\ results[1].result.next_tool = Absent
          /\ results[1].result.status # "needs_parameters"

\* C32: once the tool of a workflow has been executed successfully and has
\* returned a terminal result, no frame remains: the stack is empty at the
\* end of that turn, so that the next request starts a new workflow.
C32_CompletedToolIsPopped == CompletedTool => stack = <<>>

(***************************************************************************)
(* SpecSwitch: ToolStack.is_context_switch on inputs made of words.        *)
(***************************************************************************)
MaxWords == 6

\* The words of an input, separated by single blanks.
Words == {"Never", "mind", "rate", "why?"}

Inputs == SeqsUpTo(Words, MaxWords)

\* str.lower of a word.
lower(word) == IF word = "Never" THEN "never" ELSE word

\* `phrase in input_lower` for the phrase "never mind".
contains_phrase(words) ==
    \E i \in 1..(Len(words) - 1) : lower(words[i]) = "never" /\ lower(words[i + 1]) = "mind"

\* user_input.endswith('?')
endswith_question_mark(words) == words # <<>> /\ words[Len(words)] = "why?"

\* What is_context_switch tests of an input: not user_input, the phrases,
\* len(user_input.split()) > 5 and the final '?'.
AsQuestion(words) ==
    Question(IF words = <<>> THEN "" ELSE "<words>", contains_phrase(words),
             Len(words) > 5, endswith_question_mark(words))

SwitchStacks ==
    {<<>>,
     <<Frame("calc", InitializingContext)>>,
     <<Frame("collect_tool_parameters", CollectingContext("calc"))>>,
     <<Frame("calc", InitializingContext),
       Frame("collect_tool_parameters", CollectingContext("calc"))>>,
     <<Frame("collect_tool_parameters", CollectingContext("calc")),
       Frame("calc", SuppliedContext)>>}

SwitchInit ==
    /\ stack \in SwitchStacks
    /\ original_prompt = IF stack = <<>> THEN None ELSE "mortgage for 300000"
    /\ max_stack_depth = DEFAULT_MAX_STACK_DEPTH
    /\ last = NoCall
    /\ pc = "idle" /\ tool_calls = <<>> /\ results = <<>> /\ processed = 0
    /\ handled = NoHandled /\ executed = NoExecute /\ turn = NoTurn
    /\ history = <<>> /\ sent = <<>> /\ reply = NoReply
    /\ \E words \in Inputs : given = [op |-> "none", words |-> words]
    /\ returned = FALSE
    /\ file = None

\* is_context_switch(user_input)
IsContextSwitch ==
    /\ given.op = "none"
    /\ returned' = is_context_switch(ThisStack, AsQuestion(given.words))
    /\ given' = [given EXCEPT !.op = "is_context_switch"]
    /\ UNCHANGED <<tsvars, last, pc, tool_calls, results, processed, handled, executed,
                   turn, history, sent, reply, file>>

SpecSwitch == SwitchInit /\ [][IsContextSwitch]_vars

\* The input holds "never mind" in any case of letters.
HoldsTopicChange(words) ==
    \E i \in 1..(Len(words) - 1) : words[i] \in {"never", "Never"} /\ words[i + 1] = "mind"

\* C33: is_context_switch is true exactly when the stack is non-empty, the
\* input is non-empty, and either the input contains a topic-change phrase
\* in any case, or the top frame is collect_tool_parameters and the input
\* has more than 5 words or ends with '?'.
C33_ContextSwitchExactly ==
    given.op = "is_context_switch" =>
        (returned <=>
            /\ stack # <<>>
            /\ given.words # <<>>
            /\ \/ HoldsTopicChange(given.words)
               \/ /\ stack[Len(stack)].tool = "collect_tool_parameters"
                  /\ \/ Len(given.words) > 5
                     \/ given.words[Len(given.words)] = "why?")

\* An input of six words that ends with '?' and holds no phrase was judged
\* no context switch while the top frame was another tool.
C33_Witness ==
    /\ given.op = "is_context_switch"
    /\ ~returned
    /\ Len(given.words) = 6
    /\ given.words[6] = "why?"
    /\ ~HoldsTopicChange(given.words)
    /\ Len(stack) = 2
    /\ stack[2].tool = "calc"

(***************************************************************************)
(* SpecInteractive: the loop of start_interactive.  Each line the user     *)
(* submits is stripped; an exit command ends the loop, an empty input is   *)
(* skipped, anything else is given to ask.                                 *)
(***************************************************************************)
BlankLines == {"", "   "}

ExitCommands == {"/bye", "/exit", "/quit", "/q"}

\* What the loop did with the last blank line: active is whether a workflow
\* was active when it was submitted, confirmed whether the continue/cancel
\* confirmation was put to the user.
Submitted(line, active, confirmed) ==
    [blank |-> TRUE, line |-> line, active |-> active, confirmed |-> confirmed]

NoLine == [blank |-> FALSE, line |-> "-", active |-> FALSE, confirmed |-> FALSE]

InteractiveInit ==
    /\ ToolStackInit
    /\ pc = "idle" /\ tool_calls = <<>> /\ results = <<>> /\ processed = 0
    /\ handled = NoHandled /\ executed = NoExecute /\ turn = NoTurn
    /\ history = <<>> /\ sent = <<>> /\ reply = NoReply
    /\ given = NoLine /\ returned = None /\ file = None

\* `if not user_input: continue`: the loop reads the next line.
SkipBlankLine ==
    /\ pc = "idle"
    /\ \E line \in BlankLines : given' = Submitted(line, stack # <<>>, FALSE)
    /\ UNCHANGED <<tsvars, last, pc, tool_calls, results, processed, handled, executed,
                   turn, history, sent, reply, returned, file>>

\* An exit command: break.
LeaveLoop ==
    /\ pc = "idle"
    /\ pc' = "ended"
    /\ UNCHANGED <<tsvars, last, tool_calls, results, processed, handled, executed,
                   turn, history, sent, reply, libvars>>

\* response = self.ask(user_input), for an input that is not empty.
InteractiveAsk ==
    /\ Len(stack) <= MaxStartDepth
    /\ BeginTurn({q \in Questions : q.text # ""},
                 {<<>>, AsOutput(<<Call("calc", Absent)>>)})

InteractiveCommand == Command({"/cancel", ManualRun})

InteractiveHandle ==
    HandleCall(Registry, {Returns(NonDictValue)}, {Returns(NonDictValue)}, SessionLimit)

InteractiveNext ==
    \/ SkipBlankLine
    \/ LeaveLoop
    \/ InteractiveAsk
    \/ InteractiveCommand
    \/ InteractiveHandle
    \/ ProcessResult
    \/ FinishTurn

SpecInteractive == InteractiveInit /\ [][InteractiveNext]_vars

\* C34: in the interactive loop every blank line submitted while a workflow
\* is active leads to the continue/cancel confirmation; it is never dropped
\* silently.
C34_BlankLineConfirms ==
    (given.blank /\ given.active) => given.confirmed

\* The frames of the stack that a usage-instructions result pushed.
InitializingFrames == {i \in 1..Len(stack) : stack[i].context = InitializingContext}

\* The first call of the turn was handled on an empty stack: its result is
\* the usage-instructions payload.
StartedOnEmptyStack == results # <<>> /\ results[1].how = "usage_instructions"

\* C35: usage instructions are fetched once per workflow: a turn that starts
\* with an empty stack ends with at most one 'initializing' frame, however
\* many tool calls the model's response holds.
C35_InstructionsOncePerWorkflow ==
    (AllProcessed /\ StartedOnEmptyStack) => Cardinality(InitializingFrames) <= 1

(***************************************************************************)
(* SpecCollect: collect_tool_parameters (taco/tools/builtin/               *)
(* parameter_collector.py) run as a protocol of several calls.             *)
(***************************************************************************)
MaxQuestions == 2

QuestionTexts == {"What is the loan amount?", "How many years?"}
ParameterNames == {"principal", "years"}
UserResponses == {"300000", "30"}

\* The state mapping the tool hands back and is called with again.
CollectState(tool_name, questions, parameter_names, current_index, collected_params) ==
    [tool_name |-> tool_name, questions |-> questions,
     parameter_names |-> parameter_names, current_index |-> current_index,
     collected_params |-> collected_params]

NoCollectState == CollectState("", <<>>, <<>>, 0, <<>>)

\* The mappings the tool returns.
CollectError(message) ==
    [status |-> "error", message |-> message, question |-> Absent, question_number |-> 0,
     state |-> NoCollectState, next_tool |-> Absent, collected_parameters |-> <<>>]

Collecting(state) ==
    [status |-> "collecting", message |-> Absent,
     question |-> state.questions[state.current_index + 1],
     question_number |-> state.current_index + 1,
     state |-> state, next_tool |-> "collect_tool_parameters",
     collected_parameters |-> <<>>]

Collected(state) ==
    [status |-> "complete", message |-> "All parameters collected", question |-> Absent,
     question_number |-> 0, state |-> NoCollectState, next_tool |-> Absent,
     collected_parameters |-> state.collected_params]

NotStarted ==
    [status |-> "none", message |-> Absent, question |-> Absent, question_number |-> 0,
     state |-> NoCollectState, next_tool |-> Absent, collected_parameters |-> <<>>]

\* [f"param_{i}" for i in range(len(questions))]
default_parameter_names(questions) ==
    [i \in 1..Len(questions) |-> IF i = 1 THEN "param_0" ELSE IF i = 2 THEN "param_1"
                                 ELSE IF i = 3 THEN "param_2" ELSE "param_n"]

\* collected_params[param_name] = user_response
store(collected_params, param_name, user_response) ==
    [n \in DOMAIN collected_params \cup {param_name} |->
        IF n = param_name THEN user_response ELSE collected_params[n]]

\* The first call: current_state is None.
collect_start(tool_name, questions, parameter_names) ==
    IF tool_name = "" THEN CollectError("tool_name is required")
    ELSE IF questions = <<>> THEN CollectError("questions must be a non-empty list")
    ELSE LET names == IF parameter_names = <<>>
                      THEN default_parameter_names(questions)
                      ELSE parameter_names
         IN  IF Len(names) # Len(questions)
             THEN CollectError("parameter_names must match questions length")
             ELSE Collecting(CollectState(tool_name, questions, names, 0, <<>>))

\* A later call: current_state and user_response are given.
collect_answer(current_state, user_response) ==
    LET name == current_state.parameter_names[current_state.current_index + 1]
        state == [current_state EXCEPT
                     !.current_index = @ + 1,
                     !.collected_params = store(@, name, user_response)]
    IN  IF state.current_index < Len(state.questions)
        THEN Collecting(state)
        ELSE Collected(state)

\* The protocol so far: the arguments of the start and the responses given.
Protocol(tool_name, questions, parameter_names, started, responses) ==
    [tool_name |-> tool_name, questions |-> questions,
     parameter_names |-> parameter_names, started |-> started, responses |-> responses]

CollectInit ==
    /\ ToolStackInit
    /\ pc = "idle" /\ tool_calls = <<>> /\ results = <<>> /\ processed = 0
    /\ handled = NoHandled /\ executed = NoExecute /\ turn = NoTurn
    /\ history = <<>> /\ sent = <<>> /\ reply = NoReply
    /\ \E tool_name \in {"", "calc"},
          questions \in SeqsUpTo(QuestionTexts, MaxQuestions),
          parameter_names \in SeqsUpTo(ParameterNames, MaxQuestions) :
            given = Protocol(tool_name, questions, parameter_names, FALSE, <<>>)
    /\ returned = NotStarted
    /\ file = None

\* collect_tool_parameters(tool_name, questions, parameter_names)
CollectStart ==
    /\ ~given.started
    /\ returned' = collect_start(given.tool_name, given.questions, given.parameter_names)
    /\ given' = [given EXCEPT !.started = TRUE]
    /\ UNCHANGED <<tsvars, last, pc, tool_calls, results, processed, handled, executed,
                   turn, history, sent, reply, file>>

\* collect_tool_parameters(current_state=<the state returned>, user_response=r)
CollectAnswer ==
    /\ given.started
    /\ returned.status = "collecting"
    /\ \E user_response \in UserResponses :
          /\ returned' = collect_answer(returned.state, user_response)
          /\ given' = [given EXCEPT !.responses = Append(@, user_response)]
    /\ UNCHANGED <<tsvars, last, pc, tool_calls, results, processed, handled, executed,
                   turn, history, sent, reply, file>>

CollectNext == CollectStart \/ CollectAnswer

SpecCollect == CollectInit /\ [][CollectNext]_vars

\* The start has a tool name, n >= 1 questions and n parameter names.
WellFormedStart ==
    /\ given.tool_name # ""
    /\ given.questions # <<>>
    /\ Len(given.parameter_names) = Len(given.questions)

\* C36: started with a tool name, n >= 1 questions and n parameter names,
\* the k-th answer for k < n returns status 'collecting' with question k+1
\* and next_tool 'collect_tool_parameters', the n-th answer returns status
\* 'complete' with collected_parameters mapping parameter_names[i] to the
\* i-th response for every i, and current_index stays between 0 and n; a
\* start with mismatched lengths, no questions or no tool name returns
\* status 'error'.
C36_CollectProtocol ==
    given.started =>
        LET n == Len(given.questions)
            k == Len(given.responses)
        IN  /\ (WellFormedStart /\ k < n) =>
                  /\ returned.status = "collecting"
                  /\ returned.question = given.questions[k + 1]
                  /\ returned.next_tool = "collect_tool_parameters"
                  /\ returned.state.current_index = k
            /\ (WellFormedStart /\ k = n) =>
                  /\ returned.status = "complete"
                  /\ \A i \in 1..n :
                        /\ given.parameter_names[i] \in DOMAIN returned.collected_parameters
                        /\ returned.collected_parameters[given.parameter_names[i]]
                              = given.responses[i]
            /\ returned.state.current_index \in 0..n
            /\ ~WellFormedStart => returned.status = "error"

\* C37: between turns, a non-empty stack comes with an original_prompt that
\* is not null and is the user input of the turn that started the active
\* workflow.
C37_PromptOfActiveWorkflow ==
    /\ (pc = "idle" /\ stack # <<>>) => original_prompt # None
    /\ (AllProcessed /\ StartedOnEmptyStack /\ stack # <<>>) =>
          original_prompt = turn.question.text

\* The step of ask that makes the second model call, with a second output
\* that holds a tool call.
SecondResponseCalls == pc = "process" /\ pc' # "process" /\ turn'.second_called

Parameter(name, hint, required) == [name |-> name, hint |-> hint, required |-> required]

Signature == {Parameter("principal", "int", TRUE), Parameter("note", "str", FALSE)}

ParameterNamesOf(sig) == {p.name : p \in sig}

HintOf(sig, name) == (CHOOSE p \in sig : p.name = name).hint

\* The values a call may give and the context may hold.
CallValues ==
    {NoneValue, StrValue(<<>>), StrValue(<<"1">>), StrValue(<<"1", ".", "1">>),
     Number("int", 0)}

DefaultValues == {StrValue(<<"0">>), Number("int", Scale)}

Mappings(names, values) == UNION {[D -> values] : D \in SUBSET names}

\* kwargs[param_name] in [None, ""]
IsNoneOrEmpty(value) == value = NoneValue \/ value = StrValue(<<>>)

\* A check that takes the context default whenever there is one.
check_missing_parameters_overrides(sig, kwargs, defaults) ==
    LET filled == {n \in ParameterNamesOf(sig) : n \in DOMAIN defaults}
    IN  [updated |-> [n \in DOMAIN kwargs \cup filled |->
                         IF n \in filled THEN defaults[n] ELSE kwargs[n]],
         missing |-> {}]

\* ContextManager.check_missing_parameters(func, kwargs): defaults is
\* parameter_defaults.
check_missing_parameters(sig, kwargs, defaults) ==
    LET unset == {n \in ParameterNamesOf(sig) :
                     n \notin DOMAIN kwargs \/ IsNoneOrEmpty(kwargs[n])}
        filled == {n \in unset : n \in DOMAIN defaults /\ defaults[n] # NoneValue}
    IN  [updated |-> [n \in DOMAIN kwargs \cup filled |->
                         IF n \in filled THEN defaults[n] ELSE kwargs[n]],
         missing |-> {p.name : p \in {q \in sig : q.name \in unset \ filled /\ q.required}}]

\* The loop over updated_params and the call of tool.execute: the values
\* the tool is executed with, or the exception of a conversion.
prepare_parameters(sig, kwargs, defaults) ==
    LET updated == check_missing_parameters(sig, kwargs, defaults).updated
        converted == [n \in DOMAIN updated |->
                         IF n \in ParameterNamesOf(sig)
                         THEN convert_argument(HintOf(sig, n), updated[n])
                         ELSE Converted(updated[n])]
    IN  IF \E n \in DOMAIN converted : converted[n] = ConvertRaised
        THEN [kind |-> "raise", with |-> <<>>]
        ELSE [kind |-> "execute", with |-> [n \in DOMAIN converted |-> converted[n].value]]

Prepared(op, kwargs, defaults) == [op |-> op, kwargs |-> kwargs, defaults |-> defaults]

DefaultsInit ==
    /\ ToolStackInit
    /\ pc = "idle" /\ tool_calls = <<>> /\ results = <<>> /\ processed = 0
    /\ handled = NoHandled /\ executed = NoExecute /\ turn = NoTurn
    /\ history = <<>> /\ sent = <<>> /\ reply = NoReply
    /\ \E kwargs \in Mappings(ParameterNamesOf(Signature), CallValues),
          defaults \in Mappings(ParameterNamesOf(Signature), DefaultValues) :
            given = Prepared("none", kwargs, defaults)
    /\ returned = [kind |-> "none", with |-> <<>>]
    /\ file = None

\* One call of a registered tool in an active workflow, up to tool.execute.
PrepareParameters ==
    /\ given.op = "none"
    /\ returned' = prepare_parameters(Signature, given.kwargs, given.defaults)
    /\ given' = [given EXCEPT !.op = "prepare"]
    /\ UNCHANGED <<tsvars, last, pc, tool_calls, results, processed, handled, executed,
                   turn, history, sent, reply, file>>

SpecDefaults == DefaultsInit /\ [][PrepareParameters]_vars

\* The call gives the parameter a value that is neither null nor empty.
Supplied(name) == name \in DOMAIN given.kwargs /\ ~IsNoneOrEmpty(given.kwargs[name])

ManualRunStep == last.op = "command" /\ last.tool = ManualRun

\* C40: an input of the form '/tools run <tool> <args>' given to ask runs
\* the named tool and returns 'Tool <tool> result: ...', without a model
\* call.
C40_ManualToolRun ==
    ManualRunStep =>
        /\ reply = Text(check_for_tool_usage(ManualRun))
        /\ sent = <<>>

====
